---- MODULE Spec2Model ----
(***************************************************************************)
(* The node tree of the mind map (MindMapNode, src/src/types/index.ts) and *)
(* the structural operations of MarkdownParser (src/src/core/renderer.ts). *)
(*                                                                         *)
(* Nodes are JavaScript objects held by reference.  The model keeps them   *)
(* in an arena addressed by the node's id: children[n] is the array        *)
(* n.children, roots is the array every operation receives as `nodes`.     *)
(* Every operation reaches the objects through the root array only, so an  *)
(* object that no array reachable from the roots holds is garbage: it      *)
(* stays in the arena (in live) in the state its operation left it in, and *)
(* is reclaimed once the call has returned.                                *)
(*                                                                         *)
(* last and pre record the call in progress: the operation with its        *)
(* arguments and return value, and the arena it was called on.  A state    *)
(* with a call recorded is the state the call left; Return then hands      *)
(* control back to the caller, who makes the next call.                    *)
(***************************************************************************)
EXTENDS Integers, Sequences, FiniteSets, TLC

\* Number of node objects the arena can hold.
MaxNodes == 3

\* Pointer coordinates (clientX, clientY) of pointermove events.
MaxX == 9
MaxY == 1

\* clientX of pointerdown events, 0 or MaxDown; their clientY is 0.
MaxDown == 1

\* The drag threshold in pixels.
Threshold == 8

\* The normalisation pass is rerun at most PassBudget times.
PassBudget == 3

\* At most MaxRenders callbacks of render() and MaxTimers spring-back timers
\* are pending together.
MaxRenders == 1
MaxTimers == 1

\* Wrappers of the normalisation pass: a parent with 1..MaxKids children, the
\* first of them with up to MaxGrand children of its own, cards 1..MaxCard
\* high, a gap of 0 or MaxGap.
MaxKids == 4
MaxCard == 4
MaxGrand == 1
MaxGap == 1

\* The trunk is 32 pixels right of the parent.
TrunkOffset == 32

\* Anchors of renderConnections, on the half-pixel grid: a parent with
\* 1..MaxRects children, its right edge 0..MaxRight half-pixels from the
\* origin, the left edge of a child at TrunkOffset or MaxLeft half-pixels
\* either side of it, the center of a card 0..MaxCenter half-pixels down.
MaxRects == 3
MaxRight == 1
MaxLeft == 1
MaxCenter == 2

\* Cards of the drop-zone computation: top in {0, MaxTop}, height in
\* 1..MaxHeight.
MaxTop == 100
MaxHeight == 100

Ids == 1..MaxNodes
\* parentId: null
NULL == 0
\* findNodeWithParent(...) === null
NotFound == -1
\* Call-stack depth at which the engine raises RangeError.  It only has to be
\* larger than the depth of any tree the arena can hold.
StackLimit == MaxNodes + 2

\* Arguments the operations are called with.
Titles == {"t"}
Updates == {[title |-> "t"], [collapsed |-> TRUE], [title |-> "t", collapsed |-> FALSE]}
\* Partial<MindMapNode> also admits the structural fields.
PartialUpdates ==
  Updates \cup {[level |-> 1], [parentId |-> NULL], [children |-> <<>>]}
Modes == {"sibling", "child"}
Positions == {"before", "after", "append"}

VARIABLES roots, children, level, parentId, title, collapsed, live, last, pre

\* The fields of MindMapRenderer the pointer handlers use; cards[n] is the
\* card render() made for node n with the isRootNode its handlers captured.
VARIABLES draggingNodeId, dragStartX, dragStartY, dragActive, dropTargetId,
          dropMode, cards

\* dragDx and dragDy.
VARIABLES dragDx, dragDy

\* What was observed: the type of the last event dispatched, the action it passed to
\* onNodeAction, and the gesture the last pointerdown opened.
VARIABLES event, action, gesture

\* The geometry computeActiveDropIntent reads, the card under the pointer
\* and clientY, and the mode it makes of it.
VARIABLES hit, hitMode

\* The wrappers normalizeAllLayouts measures, a parent with its children, and
\* what the pass makes of them.
VARIABLES dom, layout

\* The anchors renderConnections measures for a parent and its children, and
\* the lines it draws.
VARIABLES rects, lines

\* What the renderer has scheduled and painted: dragRaf and connectionsRaf
\* (TRUE for a handle that is not 0), normalizePasses, the browser's list of
\* animation frame callbacks, the number of spring-back timers running, the
\* nodes whose wrapper carries a drag transform, whether the placeholder is
\* displayed, what the callbacks of the last frame did, and the delta the
\* last pointermove has put in dragDx and dragDy since the pending callback
\* of scheduleDragTransform was requested (<<>> when none is pending).
VARIABLES dragRaf, connectionsRaf, normalizePasses, rafQueue, timers,
          transformed, placeholderShown, frame, recorded

\* The markdown round trip observed: the text or the nodes given, and what
\* serialize and parse have made of them in turn (<<>> when none is under
\* way).
VARIABLES trip

forest == <<roots, children, level, parentId, title, collapsed, live, last, pre>>

painting == <<dragRaf, connectionsRaf, normalizePasses, rafQueue, timers,
              transformed, placeholderShown, frame, recorded>>

geometry == <<hit, hitMode, dom, layout, rects, lines>>

controller ==
  <<draggingNodeId, dragStartX, dragStartY, dragActive, dropTargetId, dropMode, cards,
    dragDx, dragDy>>

vars == <<forest, controller, event, action, gesture, geometry, painting, trip>>

\* The arena as one record.
Arena ==
  [roots |-> roots, children |-> children, level |-> level, parentId |-> parentId,
   title |-> title, collapsed |-> collapsed, live |-> live]

-----------------------------------------------------------------------------
\* Array helpers, with JavaScript's 0-based indices.

\* Array.prototype.findIndex((n) => n.id === x)
FindIndex(s, x) ==
  IF \E i \in 1..Len(s) : s[i] = x
    THEN (CHOOSE i \in 1..Len(s) : s[i] = x /\ \A j \in 1..(i-1) : s[j] # x) - 1
    ELSE -1

\* s.splice(i, 1)
SpliceOut(s, i) == SubSeq(s, 1, i) \o SubSeq(s, i + 2, Len(s))

\* s.splice(i, 0, x)
SpliceIn(s, i, x) == SubSeq(s, 1, i) \o <<x>> \o SubSeq(s, i + 1, Len(s))

\* The array a container names: the root array for NULL, n.children for n.
Arr(f, c) == IF c = NULL THEN f.roots ELSE f.children[c]

\* The arena after array c was replaced by s.
SetArr(f, c, s) ==
  IF c = NULL THEN [f EXCEPT !.roots = s]
              ELSE [f EXCEPT !.children[c] = s]

-----------------------------------------------------------------------------
\* Searches.  They walk the arrays reachable from the root array, depth
\* first, and stop at the first match.

RECURSIVE FindIn(_, _, _, _)
\* findNodeWithParent on array s, which is container c: the container of the
\* first node with this id, or NotFound.
FindIn(f, s, c, id) ==
  IF s = <<>> THEN NotFound
  ELSE IF Head(s) = id THEN c
  ELSE LET found == FindIn(f, f.children[Head(s)], Head(s), id)
       IN  IF found # NotFound THEN found ELSE FindIn(f, Tail(s), c, id)

FindNodeWithParent(f, id) == FindIn(f, f.roots, NULL, id)

\* findNodeById: whether a node with this id is found (the node is then the
\* arena object id).
FindNodeById(f, id) == FindNodeWithParent(f, id) # NotFound

RECURSIVE FindParents(_, _, _, _)
\* findParents of getParentChain on array s, with the chain built so far:
\* a node whose subtree holds the target is put in front of the chain
\* (chain.unshift) and the walk goes on in its children.
FindParents(f, s, targetId, chain) ==
  IF s = <<>> THEN chain
  ELSE IF Head(s) = targetId THEN chain
  ELSE IF FindIn(f, f.children[Head(s)], Head(s), targetId) # NotFound
    THEN FindParents(f, f.children[Head(s)], targetId, <<Head(s)>> \o chain)
  ELSE FindParents(f, Tail(s), targetId, chain)

\* getParentChain(nodes, nodeId)
GetParentChainCall(f, nodeId) == FindParents(f, f.roots, nodeId, <<>>)

RECURSIVE FindParentIn(_, _, _)
\* findParentNode on array s: the first node one of whose children has this
\* id, or NULL.
FindParentIn(f, s, id) ==
  IF s = <<>> THEN NULL
  ELSE IF \E i \in 1..Len(f.children[Head(s)]) : f.children[Head(s)][i] = id
    THEN Head(s)
  ELSE LET found == FindParentIn(f, f.children[Head(s)], id)
       IN  IF found # NULL THEN found ELSE FindParentIn(f, Tail(s), id)

FindParentNode(f, id) == FindParentIn(f, f.roots, id)

RECURSIVE SubtreeIn(_, _)
\* The nodes of the trees hanging from the array s.
SubtreeIn(f, s) ==
  IF s = <<>> THEN {}
  ELSE {Head(s)} \cup SubtreeIn(f, f.children[Head(s)]) \cup SubtreeIn(f, Tail(s))

\* The nodes the forest holds: those reachable from the root array.
ForestNodes(f) == SubtreeIn(f, f.roots)

\* The arena with the objects in `gone` released.
Blank(f, gone) ==
  IF gone = {} THEN f ELSE
  [roots |-> f.roots,
   children |-> [n \in Ids |-> IF n \in gone THEN <<>> ELSE f.children[n]],
   level |-> [n \in Ids |-> IF n \in gone THEN 0 ELSE f.level[n]],
   parentId |-> [n \in Ids |-> IF n \in gone THEN NULL ELSE f.parentId[n]],
   title |-> [n \in Ids |-> IF n \in gone THEN "" ELSE f.title[n]],
   collapsed |-> [n \in Ids |-> IF n \in gone THEN FALSE ELSE f.collapsed[n]],
   live |-> f.live \ gone]

\* The arena with the garbage reclaimed.
Reclaimed == Blank(Arena, live \ ForestNodes(Arena))

\* generateId: an id no object has.
GenerateId(f) == CHOOSE n \in Ids \ f.live : \A m \in Ids \ f.live : n <= m

\* The object literal of the three insert operations.
NewNode(f, n, t, lvl, pid) ==
  [roots |-> f.roots,
   children |-> [f.children EXCEPT ![n] = <<>>],
   level |-> [f.level EXCEPT ![n] = lvl],
   parentId |-> [f.parentId EXCEPT ![n] = pid],
   title |-> [f.title EXCEPT ![n] = t],
   collapsed |-> [f.collapsed EXCEPT ![n] = FALSE],
   live |-> f.live \cup {n}]

-----------------------------------------------------------------------------
\* The operations, as functions of the arena f they are called on: the arena
\* they leave and what they return.

Outcome(f, ret, node) == [f |-> f, ret |-> ret, node |-> node]

\* addRootNode(nodes, title)
AddRootNodeCall(f, t) ==
  LET n == GenerateId(f)
      g == NewNode(f, n, t, 1, NULL)
  IN  Outcome([g EXCEPT !.roots = Append(@, n)], "node", n)

\* Mutant of SiblingIndex: the new node takes the target's place.
SiblingIndexOfTarget(i) == i

\* currentNodes.splice(i + 1, 0, newNode)
SiblingIndex(i) == i + 1

\* Mutant of AddSiblingNodeCall: a target that is not found gets the new node
\* as a root.
AddSiblingNodeOrRoot(f, targetId, t) ==
  LET c == FindNodeWithParent(f, targetId)
      n == GenerateId(f)
      g == NewNode(f, n, t, IF c = NotFound THEN 1 ELSE f.level[targetId],
                   IF c = NotFound THEN NULL ELSE c)
  IN  IF c = NotFound
        THEN Outcome([g EXCEPT !.roots = Append(@, n)], "node", n)
        ELSE Outcome(SetArr(g, c, SpliceIn(Arr(g, c),
                                           FindIndex(Arr(f, c), targetId) + 1, n)),
                     "node", n)

\* addSiblingNode(nodes, targetId, title)
AddSiblingNodeCall(f, targetId, t) ==
  LET c == FindNodeWithParent(f, targetId) IN
  IF c = NotFound THEN Outcome(f, "null", NULL)
  ELSE
    LET n == GenerateId(f)
        i == FindIndex(Arr(f, c), targetId)
        g == NewNode(f, n, t, f.level[targetId], c)
    IN  Outcome(SetArr(g, c, SpliceIn(Arr(g, c), SiblingIndex(i), n)), "node", n)

\* level: target.level + 1
ChildLevel(f, targetId) == f.level[targetId] + 1

\* addChildNode(nodes, targetId, title)
AddChildNodeCall(f, targetId, t) ==
  IF ~FindNodeById(f, targetId) THEN Outcome(f, "null", NULL)
  ELSE
    LET n == GenerateId(f)
        g == NewNode(f, n, t, ChildLevel(f, targetId), targetId)
    IN  Outcome([g EXCEPT !.children[targetId] = Append(@, n)], "node", n)

\* Mutant of DeleteNodeCall: splice(i) in place of splice(i, 1), which cuts
\* the array at the node.
DeleteNodeAndFollowing(f, nodeId) ==
  LET c == FindNodeWithParent(f, nodeId) IN
  IF c = NotFound THEN Outcome(f, "false", NULL)
  ELSE
    LET s == Arr(f, c)
        i == FindIndex(s, nodeId)
        gone == SubtreeIn(f, SubSeq(s, i + 1, Len(s)))
    IN  Outcome(Blank(SetArr(f, c, SubSeq(s, 1, i)), gone), "true", NULL)

\* deleteNode(nodes, nodeId).  The splice releases the node and everything
\* below it; the released objects leave the arena.
DeleteNodeCall(f, nodeId) ==
  LET c == FindNodeWithParent(f, nodeId) IN
  IF c = NotFound THEN Outcome(f, "false", NULL)
  ELSE
    LET gone == {nodeId} \cup SubtreeIn(f, f.children[nodeId])
        g == SetArr(f, c, SpliceOut(Arr(f, c), FindIndex(Arr(f, c), nodeId)))
    IN  Outcome(Blank(g, gone), "true", NULL)

\* Object.assign(node, updates)
Assign(f, n, updates) ==
  [f EXCEPT
    !.title[n] = IF "title" \in DOMAIN updates THEN updates.title ELSE @,
    !.collapsed[n] = IF "collapsed" \in DOMAIN updates THEN updates.collapsed ELSE @,
    !.level[n] = IF "level" \in DOMAIN updates THEN updates.level ELSE @,
    !.parentId[n] = IF "parentId" \in DOMAIN updates THEN updates.parentId ELSE @,
    !.children[n] = IF "children" \in DOMAIN updates THEN updates.children ELSE @]

\* updateNode(nodes, nodeId, updates)
UpdateNodeCall(f, nodeId, updates) ==
  IF ~FindNodeById(f, nodeId) THEN Outcome(f, "false", NULL)
  ELSE Outcome(Assign(f, nodeId, updates), "true", NULL)

\* Mutant of ToggleCollapsedCall: the new flag is given to the children too.
ToggleCollapsedWithChildren(f, nodeId) ==
  IF ~FindNodeById(f, nodeId) THEN Outcome(f, "false", NULL)
  ELSE
    LET flag == ~f.collapsed[nodeId]
        flipped == {nodeId} \cup {f.children[nodeId][k] : k \in DOMAIN f.children[nodeId]}
    IN  Outcome([f EXCEPT !.collapsed = [n \in Ids |-> IF n \in flipped THEN flag ELSE @[n]]],
                "true", NULL)

\* toggleCollapsed(nodes, nodeId)
ToggleCollapsedCall(f, nodeId) ==
  IF ~FindNodeById(f, nodeId) THEN Outcome(f, "false", NULL)
  ELSE Outcome([f EXCEPT !.collapsed[nodeId] = ~@], "true", NULL)

-----------------------------------------------------------------------------
\* moveNode

\* Mutant of UpdateNodeLevels: the level of the node alone, its subtree left
\* as it was.
UpdateNodeLevelsShallow(f, n, l, depth) ==
  [f |-> [f EXCEPT !.level[n] = l], ok |-> TRUE]

RECURSIVE UpdateNodeLevels(_, _, _, _)
RECURSIVE UpdateChildLevels(_, _, _, _)
\* updateNodeLevels(node, level), called at call-stack depth `depth`: the arena
\* with the levels it has written, and ok = FALSE when the recursion ran out
\* of stack (RangeError, which nothing catches).
UpdateNodeLevels(f, n, l, depth) ==
  IF depth > StackLimit THEN [f |-> f, ok |-> FALSE]
  ELSE UpdateChildLevels([f EXCEPT !.level[n] = l], f.children[n], l + 1, depth + 1)

\* node.children.forEach((child) => this.updateNodeLevels(child, level + 1))
UpdateChildLevels(f, s, l, depth) ==
  IF s = <<>> THEN [f |-> f, ok |-> TRUE]
  ELSE LET r == UpdateNodeLevels(f, Head(s), l, depth)
       IN  IF r.ok THEN UpdateChildLevels(r.f, Tail(s), l, depth) ELSE r

\* What moveNode returns after updateNodeLevels.
Returned(r) == Outcome(r.f, IF r.ok THEN "true" ELSE "throw", NULL)

\* Mutant of SameNode: no self-move check.
SameNodeUnchecked(nodeId, targetId) == FALSE

\* if (nodeId === targetId) return false;
SameNode(nodeId, targetId) == nodeId = targetId

\* if (!source || !target || !source.parent || !target.parent) return false;
Unlocated(source, target) == source = NotFound \/ target = NotFound

\* Mutant of RemoveSource: the source stays in the array it was in.
RemoveSourceForgotten(f, source, sourceIndex) == f

\* source.parent.splice(sourceIndex, 1)
RemoveSource(f, source, sourceIndex) ==
  SetArr(f, source, SpliceOut(Arr(f, source), sourceIndex))

\* Mutant of InsertIndex: the position is not looked at.
InsertIndexIgnoresPosition(position, targetIndex) == targetIndex

\* position === 'after' ? targetIndex + 1 : targetIndex
InsertIndex(position, targetIndex) ==
  IF position = "after" THEN targetIndex + 1 ELSE targetIndex

\* Mutant of MoveAsChild: the node put in front of the target's children.
MoveAsFirstChild(f, nodeId, targetId) ==
  LET g == [f EXCEPT !.children[targetId] = <<nodeId>> \o @,
                     !.parentId[nodeId] = targetId]
  IN  Returned(UpdateNodeLevels(g, nodeId, f.level[targetId] + 1, 1))

\* mode === 'child'
MoveAsChild(f, nodeId, targetId) ==
  LET g == [f EXCEPT !.children[targetId] = Append(@, nodeId),
                     !.parentId[nodeId] = targetId]
  IN  Returned(UpdateNodeLevels(g, nodeId, f.level[targetId] + 1, 1))

\* Mutant of Reparent: the target taken for the new parent.
ReparentUnderTarget(f, nodeId, targetId) ==
  Returned(UpdateNodeLevels([f EXCEPT !.parentId[nodeId] = targetId],
                            nodeId, f.level[targetId], 1))

\* Update parent id and levels if moved across parents
Reparent(f, nodeId, targetId) ==
  LET targetParentNode == FindParentNode(f, targetId)
      newParentId == targetParentNode
      newLevel == IF targetParentNode # NULL THEN f.level[targetParentNode] + 1 ELSE 1
  IN
  IF f.parentId[nodeId] # newParentId \/ f.level[nodeId] # newLevel
    THEN Returned(UpdateNodeLevels([f EXCEPT !.parentId[nodeId] = newParentId],
                                   nodeId, newLevel, 1))
    ELSE Outcome(f, "true", NULL)

\* Mutant of MoveAsSibling: the target is looked for once the source has left
\* and is reported missing.
MoveAsSiblingTargetLost(f, nodeId, targetId, target, position) ==
  Outcome(f, "false", NULL)

\* mode === 'sibling'; target is the container found before the source left
MoveAsSibling(f, nodeId, targetId, target, position) ==
  LET targetIndex == FindIndex(Arr(f, target), targetId) IN
  IF targetIndex < 0 THEN Outcome(f, "false", NULL)
  ELSE Reparent(SetArr(f, target,
                       SpliceIn(Arr(f, target), InsertIndex(position, targetIndex),
                                nodeId)),
                nodeId, targetId)

\* moveNode(nodes, nodeId, targetId, mode, position)
MoveNodeCall(f, nodeId, targetId, mode, position) ==
  LET source == FindNodeWithParent(f, nodeId)
      target == FindNodeWithParent(f, targetId)
  IN
  IF SameNode(nodeId, targetId) THEN Outcome(f, "false", NULL)
  ELSE IF Unlocated(source, target) THEN Outcome(f, "false", NULL)
  ELSE
    LET sourceIndex == FindIndex(Arr(f, source), nodeId) IN
    IF sourceIndex < 0 THEN Outcome(f, "false", NULL)
    ELSE IF mode = "child"
      THEN MoveAsChild(RemoveSource(f, source, sourceIndex), nodeId, targetId)
      ELSE MoveAsSibling(RemoveSource(f, source, sourceIndex), nodeId, targetId,
                         target, position)

-----------------------------------------------------------------------------
\* The pointer drag controller of MindMapRenderer.

\* dropMode: null | 'sibling-before' | 'sibling-after' | 'child'
NoMode == "null"

\* The three bands of the card under the pointer: y < 25%, y > 75%, between.
Zones == {"top", "bottom", "middle"}

Abs(a) == IF a < 0 THEN 0 - a ELSE a

\* Mutant of Exceeds: a drag starts at the threshold already.
ExceedsOrReaches(dx, dy) == dx + dy >= Threshold

\* dx + dy > 8
Exceeds(dx, dy) == dx + dy > Threshold

\* isDescendant(ancestorId, possibleDescendantId) on this.nodes
IsDescendant(f, ancestorId, possibleDescendantId) ==
  /\ FindNodeById(f, ancestorId)
  /\ FindIn(f, f.children[ancestorId], ancestorId, possibleDescendantId) # NotFound

NoIntent == [targetId |-> NULL, mode |-> NoMode]

\* computeActiveDropIntent: `under` is the card elementFromPoint gives (NULL
\* for none), `zone` the band of that card the pointer is in.
ComputeActiveDropIntent(f, under, zone, draggingId) ==
  IF under = NULL \/ under = draggingId \/ IsDescendant(f, draggingId, under)
    THEN NoIntent
  ELSE IF zone = "top" THEN [targetId |-> under, mode |-> "sibling-before"]
  ELSE IF zone = "bottom" THEN [targetId |-> under, mode |-> "sibling-after"]
  ELSE [targetId |-> under, mode |-> "child"]

\* Mutant of DropZone: the two boundaries belong to the sibling bands.
DropZoneClosed(top, height, clientY) ==
  LET y == clientY - top IN
  IF 4 * y <= height THEN "sibling-before"
  ELSE IF 4 * y >= 3 * height THEN "sibling-after"
  ELSE "child"

\* The mode computeActiveDropIntent gives for a card at rect.top = top of
\* rect.height = height: y = clientY - rect.top against zoneTop =
\* height * 0.25 and zoneBottom = height * 0.75, compared in quarters.
DropZone(top, height, clientY) ==
  LET y == clientY - top IN
  IF 4 * y < height THEN "sibling-before"
  ELSE IF 4 * y > 3 * height THEN "sibling-after"
  ELSE "child"

NoHit == [top |-> 0, height |-> 0, clientY |-> 0]

-----------------------------------------------------------------------------
\* The normalisation pass. A wrapper is [card, kids]: the height of its card
\* and its child wrappers; lengths are in pixels, centers in quarters of a
\* pixel.

Max(a, b) == IF a >= b THEN a ELSE b

RECURSIVE Sum(_)
Sum(heights) == IF heights = <<>> THEN 0 ELSE Head(heights) + Sum(Tail(heights))

\* Mutant of PlaceChildren: the gap is left out of accTop.
RECURSIVE PlaceChildrenNoGap(_, _, _, _)
PlaceChildrenNoGap(childHeights, gap, accTop, tops) ==
  IF Len(tops) = Len(childHeights) THEN tops
  ELSE PlaceChildrenNoGap(childHeights, gap,
                          accTop + childHeights[Len(tops) + 1],
                          Append(tops, accTop))

\* The loop over childWrappers: top = accTop; accTop += childHeights[index]
\* + gap.
RECURSIVE PlaceChildren(_, _, _, _)
PlaceChildren(childHeights, gap, accTop, tops) ==
  IF Len(tops) = Len(childHeights) THEN tops
  ELSE PlaceChildren(childHeights, gap,
                     accTop + childHeights[Len(tops) + 1] + gap,
                     Append(tops, accTop))

NoWalk ==
  [tops |-> <<>>, childHeights |-> <<>>, totalHeight |-> 0, subtreeHeight |-> 0,
   kids |-> <<>>]

\* What walk does to a wrapper whose child wrappers measure childHeights.
Stack(card, childHeights, gap) ==
  LET totalHeight == Sum(childHeights) + gap * (Len(childHeights) - 1) IN
  [tops |-> PlaceChildren(childHeights, gap, 0, <<>>),
   childHeights |-> childHeights,
   totalHeight |-> totalHeight,
   subtreeHeight |-> Max(card, totalHeight),
   kids |-> <<>>]

\* walk(wrapper) of a wrapper whose children have no children: nothing for a
\* wrapper with no child wrappers, whose height is the height of its card.
WalkLeaves(w, gap) ==
  IF w.kids = <<>> THEN [NoWalk EXCEPT !.subtreeHeight = w.card]
  ELSE Stack(w.card, w.kids, gap)

\* walk(wrapper): the children first; the height getBoundingClientRect gives
\* for a child wrapper is then the one its walk has left it, its children
\* block having totalHeight and its min-height being subtreeHeight.
Walk(w, gap) ==
  LET walked == [i \in DOMAIN w.kids |-> WalkLeaves(w.kids[i], gap)] IN
  [Stack(w.card, [i \in DOMAIN w.kids |-> walked[i].subtreeHeight], gap)
     EXCEPT !.kids = walked]

\* The centers of the cards in the children block: a wrapper is a flex row
\* with align-items: center, so the card of the parent is level with the
\* middle of the block and the card of a child with the middle of its
\* wrapper.
ParentCenter(walk) == 2 * walk.totalHeight

ChildCenters(walk) ==
  [i \in DOMAIN walk.tops |-> 4 * walk.tops[i] + 2 * walk.childHeights[i]]

\* centers.sort((a, b) => a - b)
RECURSIVE Insert(_, _)
Insert(sorted, v) ==
  IF sorted = <<>> THEN <<v>>
  ELSE IF v < Head(sorted) THEN <<v>> \o sorted
  ELSE <<Head(sorted)>> \o Insert(Tail(sorted), v)

RECURSIVE Sort(_)
Sort(centers) ==
  IF centers = <<>> THEN <<>> ELSE Insert(Sort(Tail(centers)), Head(centers))

\* snap with devicePixelRatio 1: Math.round, of a length in quarters, in
\* quarters.
Snap(v) == 4 * ((v + 2) \div 4)

\* mid of validateSymmetry: the middle center, or the mean of the two middle
\* ones.
Median(centers) ==
  LET n == Len(centers) IN
  IF n % 2 = 1 THEN centers[(n - 1) \div 2 + 1]
  ELSE (centers[n \div 2] + centers[n \div 2 + 1]) \div 2

\* validateSymmetry for the parent: needsFix.
ValidateSymmetry(walk) ==
  LET centers == Sort([i \in DOMAIN walk.tops |-> Snap(ChildCenters(walk)[i])])
  IN  Abs(Median(centers) - Snap(ParentCenter(walk))) > 4

NoDom == [card |-> 0, gap |-> 0, kids |-> <<>>]

-----------------------------------------------------------------------------
\* renderConnections for one parent; lengths in quarters of a pixel.

\* A child with no wrapper or no card: null in childRects before the filter.
NoRect == [left |-> -1, centerY |-> -1]

RECURSIVE MinOf(_)
MinOf(values) ==
  IF Len(values) = 1 THEN values[1]
  ELSE LET m == MinOf(Tail(values)) IN IF Head(values) <= m THEN Head(values) ELSE m

\* Mutant of TrunkX: the fixed offset, with no cap.
TrunkXUncapped(parentRight, childRects) == Snap(parentRight + 4 * TrunkOffset)

\* trunkX, of the snapped right edge of the parent and the snapped rects.
TrunkX(parentRight, childRects) ==
  LET desiredTrunkX == Snap(parentRight + 4 * TrunkOffset)
      horizontalGap == 0
      minChildLeft == MinOf([i \in DOMAIN childRects |-> childRects[i].left])
      maxTrunkX == Snap(minChildLeft - horizontalGap)
  IN  Snap(IF desiredTrunkX <= maxTrunkX THEN desiredTrunkX ELSE maxTrunkX)

\* [...childRects].sort((a, b) => a.centerY - b.centerY), as the centers.
SortedCenters(childRects) == Sort([i \in DOMAIN childRects |-> childRects[i].centerY])

NoLines ==
  [drawn |-> FALSE, parentPath |-> <<>>, trunk |-> <<>>, branches |-> <<>>]

\* renderNodeConnections for a parent with children that is not collapsed:
\* the path from the parent, the trunk, a line for every rect.
RenderNodeConnections(r) ==
  LET parentRight == Snap(r.parent.right)
      parentCenterY == Snap(r.parent.centerY)
      snapped == [i \in DOMAIN r.kids |->
                    IF r.kids[i] = NoRect THEN NoRect
                    ELSE [left |-> Snap(r.kids[i].left), centerY |-> Snap(r.kids[i].centerY)]]
      childRects == SelectSeq(snapped, LAMBDA c : c # NoRect)
  IN  IF childRects = <<>> THEN [NoLines EXCEPT !.drawn = TRUE]
      ELSE
        LET trunkX == TrunkX(parentRight, childRects)
            sortedRects == SortedCenters(childRects)
        IN  [drawn |-> TRUE,
             parentPath |-> <<parentRight, parentCenterY, trunkX, parentCenterY>>,
             trunk |-> <<trunkX, sortedRects[1], trunkX, sortedRects[Len(sortedRects)]>>,
             branches |-> [i \in DOMAIN childRects |->
                             <<trunkX, childRects[i].centerY,
                               childRects[i].left, childRects[i].centerY>>]]

NoRects == [parent |-> [right |-> 0, centerY |-> 0], kids |-> <<>>]

NoLayout == [walk |-> NoWalk, needsFix |-> FALSE]

\* A frame's normalizeAllLayouts() and validateSymmetry() on the wrapper d.
Normalized(d) ==
  LET walk == Walk(d, d.gap) IN [walk |-> walk, needsFix |-> ValidateSymmetry(walk)]

\* Mutant of Commits: a resolved drop intent is enough.
CommitsAnyIntent(active, mode, targetId) == mode # NoMode /\ targetId # NULL

\* endDrag: this.dragActive && this.dropMode && this.dropTargetId
Commits(active, mode, targetId) == active /\ mode # NoMode /\ targetId # NULL

\* The data object endDrag passes with 'reorder'.
ReorderData(mode, targetId) ==
  IF mode = "child"
    THEN [mode |-> "child", targetId |-> targetId, position |-> "undefined"]
  ELSE IF mode = "sibling-before"
    THEN [mode |-> "sibling", targetId |-> targetId, position |-> "before"]
  ELSE [mode |-> "sibling", targetId |-> targetId, position |-> "after"]

\* handleNodeAction: data.position ?? 'append'
PositionOrAppend(position) == IF position = "undefined" THEN "append" ELSE position

\* render(nodes): a card for every node of the forest; its handlers capture
\* isRootNode = (node.parentId === null).
Render(f) ==
  [n \in Ids |-> IF n \notin ForestNodes(f) THEN "absent"
                 ELSE IF f.parentId[n] = NULL THEN "root" ELSE "inner"]

NoAction ==
  [action |-> "none", nodeId |-> NULL, mode |-> "", targetId |-> NULL, position |-> ""]

NoEvent == "none"

\* A gesture runs from a pointerdown on the card of `node` (a root card or
\* not) at (downX, downY) to the release that ends it: far and edge tell
\* whether a pointermove of it was more than, or exactly, Threshold away from
\* the pointerdown, resolved what its last pointermove made of
\* computeActiveDropIntent while it is open, intent whether it ended dragging
\* with a drop intent resolved, reorders how many 'reorder' actions it emitted.
NoGesture ==
  [node |-> NULL, root |-> FALSE, downX |-> 0, downY |-> 0, far |-> FALSE,
   edge |-> FALSE, open |-> FALSE, resolved |-> NoIntent, intent |-> FALSE,
   reorders |-> 0]

\* The release that ends the open gesture, emitting `emitted` reorders; a
\* release with no gesture open ends none.
Ended(emitted) ==
  IF ~gesture.open THEN gesture
  ELSE [gesture EXCEPT
          !.open = FALSE,
          !.resolved = NoIntent,
          !.intent = dragActive /\ dropMode # NoMode /\ dropTargetId # NULL,
          !.reorders = @ + emitted]

-----------------------------------------------------------------------------
\* Scheduling and painting, on the record p of the painting variables.

\* The callbacks given to requestAnimationFrame: of scheduleDragTransform for
\* the wrapper of n, of render, of scheduleConnectionsRender. A wrapper that
\* render has taken out of the document is NULL.
RafDrag(n) == [kind |-> "drag", wrapper |-> n]

RafRender == [kind |-> "render", wrapper |-> NULL]

RafConnections == [kind |-> "connections", wrapper |-> NULL]

\* What the callbacks of a frame did: how many times normalizeAllLayouts ran,
\* whether renderConnections ran, and for the callback of
\* scheduleConnectionsRender whether it ran the pass, whether the pass
\* reported a change and whether normalizePasses had reached PassBudget; for
\* the callback of scheduleDragTransform the translate(dx, dy) it wrote and
\* the delta the last pointermove had recorded.
NoFrame ==
  [normalizations |-> 0, drew |-> FALSE, passed |-> FALSE, changed |-> FALSE,
   spent |-> FALSE, applied |-> <<>>, recorded |-> <<>>]

ScheduleConnectionsRender(p) ==
  IF p.connectionsRaf THEN p
  ELSE [p EXCEPT !.connectionsRaf = TRUE, !.rafQueue = Append(@, RafConnections)]

\* Mutant of ScheduleDragTransform: a callback is requested by every move.
ScheduleDragTransformUnguarded(p, n) ==
  [p EXCEPT !.dragRaf = TRUE, !.rafQueue = Append(@, RafDrag(n))]

ScheduleDragTransform(p, n) ==
  IF p.dragRaf THEN p
  ELSE [p EXCEPT !.dragRaf = TRUE, !.rafQueue = Append(@, RafDrag(n))]

\* A pointermove has put (dx, dy) in dragDx and dragDy.
Recorded(p, dx, dy) == IF p.dragRaf THEN [p EXCEPT !.recorded = <<dx, dy>>] ELSE p

\* clearDragTransform on the wrapper endDrag holds for n.
ClearDragTransform(p, n) ==
  ScheduleConnectionsRender(
    [p EXCEPT !.dragRaf = FALSE,
              !.rafQueue = SelectSeq(@, LAMBDA c : c.kind # "drag"),
              !.transformed = @ \ {n},
              !.recorded = <<>>])

\* The spring-back of endDrag: the transform of the wrapper of n is emptied
\* and a timer set.
SpringBack(p, n) == [p EXCEPT !.transformed = @ \ {n}, !.timers = @ + 1]

\* render: the wrappers are made anew, those of pending callbacks are out of
\* the document, and a callback is requested with no guard.
Rendered(p) ==
  [p EXCEPT !.transformed = {},
            !.rafQueue = Append([i \in DOMAIN @ |-> [@[i] EXCEPT !.wrapper = NULL]],
                                RafRender)]

\* The render callbacks pending.
Renders(queue) == Cardinality({i \in DOMAIN queue : queue[i].kind = "render"})

\* normalizeAllLayouts() || validateSymmetry(): the pass reports a change for
\* every wrapper that has child wrappers, and validateSymmetry looks at such
\* wrappers only.
LayoutChanges(c) == \E n \in Ids : c[n] = "inner"

\* Mutant of ConnectionsFrame: the pass is rerun while it reports a change.
ConnectionsFrameUnbudgeted(p, active, changed) ==
  LET q == [p EXCEPT !.connectionsRaf = FALSE] IN
  IF active THEN [q EXCEPT !.frame.drew = TRUE]
  ELSE
    LET r == [q EXCEPT !.frame.normalizations = @ + 1, !.frame.passed = TRUE,
                       !.frame.changed = changed,
                       !.frame.spent = q.normalizePasses >= PassBudget]
    IN  IF changed
          THEN ScheduleConnectionsRender([r EXCEPT !.normalizePasses = @ + 1])
          ELSE [r EXCEPT !.normalizePasses = 0, !.frame.drew = TRUE]

\* Mutant of ConnectionsFrame: the connectors are drawn in the frame that
\* requests a rerun too.
ConnectionsFrameEager(p, active, changed) ==
  LET q == [p EXCEPT !.connectionsRaf = FALSE] IN
  IF active THEN [q EXCEPT !.frame.drew = TRUE]
  ELSE
    LET r == [q EXCEPT !.frame.normalizations = @ + 1, !.frame.passed = TRUE,
                       !.frame.changed = changed,
                       !.frame.spent = q.normalizePasses >= PassBudget,
                       !.frame.drew = TRUE]
    IN  IF changed /\ q.normalizePasses < PassBudget
          THEN ScheduleConnectionsRender([r EXCEPT !.normalizePasses = @ + 1])
          ELSE [r EXCEPT !.normalizePasses = 0]

\* The callback of scheduleConnectionsRender; active is dragActive, changed
\* what the pass reports.
ConnectionsFrame(p, active, changed) ==
  LET q == [p EXCEPT !.connectionsRaf = FALSE] IN
  IF active THEN [q EXCEPT !.frame.drew = TRUE]
  ELSE
    LET r == [q EXCEPT !.frame.normalizations = @ + 1, !.frame.passed = TRUE,
                       !.frame.changed = changed,
                       !.frame.spent = q.normalizePasses >= PassBudget]
    IN  IF changed /\ q.normalizePasses < PassBudget
          THEN ScheduleConnectionsRender([r EXCEPT !.normalizePasses = @ + 1])
          ELSE [r EXCEPT !.normalizePasses = 0, !.frame.drew = TRUE]

\* The callback of scheduleDragTransform.
DragFrame(p, c) ==
  ScheduleConnectionsRender(
    [p EXCEPT !.transformed = IF c.wrapper = NULL THEN @ ELSE @ \cup {c.wrapper},
              !.dragRaf = FALSE,
              !.frame.applied = <<dragDx, dragDy>>,
              !.frame.recorded = p.recorded,
              !.recorded = <<>>])

\* The callback of render.
RenderFrame(p) ==
  ScheduleConnectionsRender([p EXCEPT !.frame.normalizations = @ + 1])

RunCallback(p, c, active, changed) ==
  IF c.kind = "drag" THEN DragFrame(p, c)
  ELSE IF c.kind = "render" THEN RenderFrame(p)
  ELSE ConnectionsFrame(p, active, changed)

\* A frame runs the callbacks of the list in the order of their requests.
RECURSIVE RunCallbacks(_, _, _, _)
RunCallbacks(p, queue, active, changed) ==
  IF queue = <<>> THEN p
  ELSE RunCallbacks(RunCallback(p, Head(queue), active, changed), Tail(queue),
                    active, changed)

-----------------------------------------------------------------------------
\* No call is in progress.
NoCall ==
  [op |-> "none", id |-> NULL, target |-> NULL, mode |-> "", position |-> "",
   ret |-> "", node |-> NULL, chain |-> <<>>]

\* The forest with no node.
Empty ==
  [roots |-> <<>>,
   children |-> [n \in Ids |-> <<>>],
   level |-> [n \in Ids |-> 0],
   parentId |-> [n \in Ids |-> NULL],
   title |-> [n \in Ids |-> ""],
   collapsed |-> [n \in Ids |-> FALSE],
   live |-> {}]

\* The renderer after construction and render(f).
Constructed(f) ==
  /\ draggingNodeId = NULL
  /\ dragStartX = 0
  /\ dragStartY = 0
  /\ dragActive = FALSE
  /\ dragDx = 0
  /\ dragDy = 0
  /\ dropTargetId = NULL
  /\ dropMode = NoMode
  /\ cards = Render(f)
  /\ event = NoEvent
  /\ action = NoAction
  /\ gesture = NoGesture
  /\ dragRaf = FALSE
  /\ connectionsRaf = FALSE
  /\ normalizePasses = 0
  /\ rafQueue = <<RafRender>>
  /\ timers = 0
  /\ transformed = {}
  /\ placeholderShown = FALSE
  /\ frame = NoFrame
  /\ recorded = <<>>

Init ==
  /\ roots = <<>>
  /\ children = [n \in Ids |-> <<>>]
  /\ level = [n \in Ids |-> 0]
  /\ parentId = [n \in Ids |-> NULL]
  /\ title = [n \in Ids |-> ""]
  /\ collapsed = [n \in Ids |-> FALSE]
  /\ live = {}
  /\ last = NoCall
  /\ pre = Arena
  /\ Constructed(Empty)
  /\ hit = NoHit
  /\ hitMode = NoMode
  /\ dom = NoDom
  /\ layout = NoLayout
  /\ rects = NoRects
  /\ lines = NoLines
  /\ trip = <<>>

\* The record of a call: the operation, its arguments, what it returned
\* ("true", "false", "null", "node" with the node created, or "throw").
Call(op, id, target, mode, position, r) ==
  [op |-> op, id |-> id, target |-> target, mode |-> mode, position |-> position,
   ret |-> r.ret, node |-> r.node, chain |-> <<>>]

\* The arena r.f takes the place of the arena f.
Store(f, r, call) ==
  /\ roots' = r.f.roots
  /\ children' = r.f.children
  /\ level' = r.f.level
  /\ parentId' = r.f.parentId
  /\ title' = r.f.title
  /\ collapsed' = r.f.collapsed
  /\ live' = r.f.live
  /\ last' = call
  /\ pre' = f
  /\ UNCHANGED <<geometry, trip>>

\* The operation ran on the arena f it found and left r.f; no pointer event
\* is involved.
Commit(f, r, call) ==
  /\ Store(f, r, call)
  /\ UNCHANGED <<controller, event, action, gesture, painting>>

\* The caller is free to make a call.
Idle == last = NoCall

\* The arena has room for the node an insert creates.
Room(f) == f.live # Ids

AddRootNode(t) ==
  /\ Idle
  /\ \E f \in {Arena} :
       /\ Room(f)
       /\ \E r \in {AddRootNodeCall(f, t)} :
            Commit(f, r, Call("addRootNode", NULL, NULL, "", "", r))

AddSiblingNode(targetId, t) ==
  /\ Idle
  /\ \E f \in {Arena} :
       /\ FindNodeById(f, targetId) => Room(f)
       /\ \E r \in {AddSiblingNodeCall(f, targetId, t)} :
            Commit(f, r, Call("addSiblingNode", targetId, NULL, "", "", r))

AddChildNode(targetId, t) ==
  /\ Idle
  /\ \E f \in {Arena} :
       /\ FindNodeById(f, targetId) => Room(f)
       /\ \E r \in {AddChildNodeCall(f, targetId, t)} :
            Commit(f, r, Call("addChildNode", targetId, NULL, "", "", r))

DeleteNode(nodeId) ==
  /\ Idle
  /\ \E f \in {Arena} :
       /\ \E r \in {DeleteNodeCall(f, nodeId)} :
            Commit(f, r, Call("deleteNode", nodeId, NULL, "", "", r))

UpdateNode(nodeId, updates) ==
  /\ Idle
  /\ \E f \in {Arena} :
       /\ \E r \in {UpdateNodeCall(f, nodeId, updates)} :
            Commit(f, r, Call("updateNode", nodeId, NULL, "", "", r))

ToggleCollapsed(nodeId) ==
  /\ Idle
  /\ \E f \in {Arena} :
       /\ \E r \in {ToggleCollapsedCall(f, nodeId)} :
            Commit(f, r, Call("toggleCollapsed", nodeId, NULL, "", "", r))

MoveNode(nodeId, targetId, mode, position) ==
  /\ Idle
  /\ \E f \in {Arena} :
       /\ \E r \in {MoveNodeCall(f, nodeId, targetId, mode, position)} :
            Commit(f, r, Call("moveNode", nodeId, targetId, mode, position, r))

GetParentChain(nodeId) ==
  /\ Idle
  /\ \E f \in {Arena} :
       /\ \E chain \in {GetParentChainCall(f, nodeId)} :
            Commit(f, [f |-> f],
                   [Call("getParentChain", nodeId, NULL, "", "", Outcome(f, "chain", NULL))
                      EXCEPT !.chain = chain])

\* The call returns: the caller has its return value, the garbage it left is
\* reclaimed.
Return ==
  /\ ~Idle
  /\ \E f \in {Reclaimed} : Commit(f, [f |-> f], NoCall)

\* A call returns before the next one is made: every operation has the guard
\* Idle, stated here once for all its arguments.
Next ==
  \/ Return
  \/ Idle /\ \E t \in Titles : AddRootNode(t)
  \/ Idle /\ \E n \in Ids, t \in Titles : AddSiblingNode(n, t)
  \/ Idle /\ \E n \in Ids, t \in Titles : AddChildNode(n, t)
  \/ Idle /\ \E n \in Ids : DeleteNode(n)
  \/ Idle /\ \E n \in Ids, u \in Updates : UpdateNode(n, u)
  \/ Idle /\ \E n \in Ids : ToggleCollapsed(n)
  \/ Idle /\ \E n \in Ids, m \in Ids, mode \in Modes, position \in Positions :
                MoveNode(n, m, mode, position)

Spec == Init /\ [][Next]_vars

\* updateNode given any Partial<MindMapNode>, on the forests the insert
\* operations build.
NextPartial ==
  \/ Return
  \/ \E t \in Titles : AddRootNode(t)
  \/ \E n \in Ids, t \in Titles : AddSiblingNode(n, t)
  \/ \E n \in Ids, t \in Titles : AddChildNode(n, t)
  \/ \E n \in Ids, u \in PartialUpdates : UpdateNode(n, u)

SpecPartial == Init /\ [][NextPartial]_vars

\* getParentChain on the forests the insert operations and deleteNode build.
NextChain ==
  \/ Return
  \/ \E t \in Titles : AddRootNode(t)
  \/ \E n \in Ids, t \in Titles : AddSiblingNode(n, t)
  \/ \E n \in Ids, t \in Titles : AddChildNode(n, t)
  \/ \E n \in Ids : DeleteNode(n)
  \/ \E n \in Ids : GetParentChain(n)

SpecChain == Init /\ [][NextChain]_vars

-----------------------------------------------------------------------------
\* The pointer handlers attachPointerDragHandlers puts on the card of node
\* n.  An event is dispatched to a card render() made; the handler sees
\* clientX and clientY and, in pointermove, what lies under the pointer.

\* The forest is as it was and no parser call is in progress.
Untouched == \E f \in {Arena} : Store(f, [f |-> f], NoCall)

\* The end of endDrag: clearDropPreview(), draggingNodeId = null,
\* dragActive = false.
Released ==
  /\ dropTargetId' = NULL
  /\ dropMode' = NoMode
  /\ draggingNodeId' = NULL
  /\ dragActive' = FALSE
  /\ UNCHANGED <<dragStartX, dragStartY, dragDx, dragDy>>

\* The painting variables as a record, and the record p as their next value.
Painting ==
  [dragRaf |-> dragRaf, connectionsRaf |-> connectionsRaf,
   normalizePasses |-> normalizePasses, rafQueue |-> rafQueue, timers |-> timers,
   transformed |-> transformed, placeholderShown |-> placeholderShown,
   frame |-> NoFrame, recorded |-> recorded]

Paint(p) ==
  /\ dragRaf' = p.dragRaf
  /\ connectionsRaf' = p.connectionsRaf
  /\ normalizePasses' = p.normalizePasses
  /\ rafQueue' = p.rafQueue
  /\ timers' = p.timers
  /\ transformed' = p.transformed
  /\ placeholderShown' = p.placeholderShown
  /\ frame' = p.frame
  /\ recorded' = p.recorded

\* pointerdown on the card of n; onControl: the target is inside an editable
\* field, the resize handle, the toolbar or the count badge.
PointerDown(n, onControl) ==
  /\ cards[n] # "absent"
  /\ event' = "pointerdown"
  /\ action' = NoAction
  /\ Untouched
  /\ Paint(Painting)
  /\ IF onControl
       THEN UNCHANGED <<controller, gesture>>
       ELSE \E x \in {0, MaxDown}, y \in {0} :
            /\ draggingNodeId' = n
            /\ dragStartX' = x
            /\ dragStartY' = y
            /\ dragActive' = FALSE
            /\ dragDx' = 0
            /\ dragDy' = 0
            /\ UNCHANGED <<dropTargetId, dropMode, cards>>
            /\ gesture' = [node |-> n, root |-> cards[n] = "root", downX |-> x,
                           downY |-> y, far |-> FALSE, edge |-> FALSE,
                           open |-> TRUE, resolved |-> NoIntent,
                           intent |-> FALSE, reorders |-> 0]

\* clientX and clientY of the pointermove events: a point on the line of the
\* pointerdowns one short of MaxX, and the corner (MaxX, MaxY).
Pointers == {<<MaxX - 1, 0>>, <<MaxX, MaxY>>}

\* What pointermove makes of clientX = x and clientY = y: whether dx + dy
\* passes the threshold, and how far the event is from the pointerdown.
Measured(x, y) ==
  LET dx == Abs(x - dragStartX)
      dy == Abs(y - dragStartY)
      reported == Abs(x - gesture.downX) + Abs(y - gesture.downY)
  IN  [exceeds |-> Exceeds(dx, dy),
       far |-> reported > Threshold,
       edge |-> reported = Threshold,
       dx |-> x - dragStartX,
       dy |-> y - dragStartY]

\* pointermove on the card of n, which is being dragged: m is Measured at
\* the event's coordinates, intent the drop intent there.
MoveAt(n, m, intent) ==
  LET active == dragActive \/ m.exceeds IN
    /\ gesture' = [gesture EXCEPT
                     !.far = @ \/ m.far,
                     !.edge = @ \/ m.edge,
                     !.resolved = IF active /\ cards[n] # "root" THEN intent ELSE @]
    /\ dragActive' = active
    /\ IF ~active
         THEN UNCHANGED <<dragDx, dragDy>>
         ELSE dragDx' = m.dx /\ dragDy' = m.dy
    /\ IF ~active
         THEN /\ UNCHANGED <<dropTargetId, dropMode>>
              /\ Paint(Painting)
       ELSE IF cards[n] = "root"
         THEN /\ UNCHANGED <<dropTargetId, dropMode>>
              /\ Paint(Recorded(Painting, m.dx, m.dy))
         ELSE /\ dropTargetId' = intent.targetId
              /\ dropMode' = intent.mode
              /\ Paint([Recorded(ScheduleDragTransform(Painting, n), m.dx, m.dy) EXCEPT
                         !.placeholderShown = intent # NoIntent])

\* pointermove on the card of n.
PointerMove(n) ==
  /\ cards[n] # "absent"
  /\ event' = "pointermove"
  /\ action' = NoAction
  /\ Untouched
  /\ UNCHANGED <<draggingNodeId, dragStartX, dragStartY, cards>>
  /\ IF draggingNodeId # n
       THEN /\ UNCHANGED <<dragActive, dropTargetId, dropMode, gesture, dragDx, dragDy>>
            /\ Paint(Painting)
       ELSE
         \E m \in {Measured(c[1], c[2]) : c \in Pointers} :
         \E intent \in {ComputeActiveDropIntent(Arena, under, zone, n) :
                          under \in Ids \cup {NULL}, zone \in Zones} :
           MoveAt(n, m, intent)

\* endDrag, the handler of pointerup and of pointercancel on the card of n.
\* 'reorder' goes to handleNodeAction, which calls moveNode and render; an
\* exception moveNode throws leaves endDrag at the call.
EndDrag(n, type) ==
  /\ cards[n] # "absent"
  /\ event' = type
  /\ IF draggingNodeId # n
       THEN /\ action' = NoAction
            /\ Untouched
            /\ UNCHANGED <<controller, gesture>>
            /\ Paint(Painting)
     ELSE IF ~Commits(dragActive, dropMode, dropTargetId)
       THEN /\ action' = NoAction
            /\ Untouched
            /\ Released
            /\ UNCHANGED cards
            /\ gesture' = Ended(0)
            /\ dragActive => timers < MaxTimers
            /\ LET sprung == IF dragActive THEN SpringBack(Painting, n) ELSE Painting
                    cleared == IF dropMode # NoMode /\ dropTargetId # NULL
                                 THEN ClearDragTransform(sprung, n)
                                 ELSE sprung
               IN  Paint([cleared EXCEPT !.placeholderShown = FALSE])
     ELSE
       \E f \in {Arena} :
       \E d \in {ReorderData(dropMode, dropTargetId)} :
       \E r \in {MoveNodeCall(f, n, d.targetId, d.mode, PositionOrAppend(d.position))} :
       \E g \in {Blank(r.f, r.f.live \ ForestNodes(r.f))} :
         /\ action' = [action |-> "reorder", nodeId |-> n, mode |-> d.mode,
                       targetId |-> d.targetId, position |-> d.position]
         /\ Store(f, [f |-> g],
                  Call("moveNode", n, d.targetId, d.mode, PositionOrAppend(d.position), r))
         /\ gesture' = Ended(1)
         /\ IF r.ret = "throw"
              THEN /\ UNCHANGED controller
                   /\ Paint(Painting)
              ELSE /\ Released
                   /\ cards' = Render(g)
                   /\ Renders(rafQueue) < MaxRenders
                   /\ Paint([ClearDragTransform(
                               ScheduleConnectionsRender(Rendered(Painting)), n)
                             EXCEPT !.placeholderShown = FALSE])

PointerUp(n) == EndDrag(n, "pointerup")

PointerCancel(n) == EndDrag(n, "pointercancel")

\* click on the card of n.
Click(n, onControl) ==
  /\ cards[n] # "absent"
  /\ event' = "click"
  /\ action' = IF onControl THEN NoAction ELSE [NoAction EXCEPT !.action = "select", !.nodeId = n]
  /\ Untouched
  /\ UNCHANGED <<controller, gesture>>
  /\ Paint(Painting)

\* A frame of the browser: the callbacks requested before it run.
Frame ==
  /\ rafQueue # <<>>
  /\ event' = "frame"
  /\ action' = NoAction
  /\ Untouched
  /\ UNCHANGED <<controller, gesture>>
  /\ Paint(RunCallbacks([Painting EXCEPT !.rafQueue = <<>>], rafQueue,
                        dragActive, LayoutChanges(cards)))

\* The timer of a spring-back, 250 ms after the release.
Timer ==
  /\ timers > 0
  /\ event' = "timeout"
  /\ action' = NoAction
  /\ Untouched
  /\ UNCHANGED <<controller, gesture>>
  /\ Paint(ScheduleConnectionsRender([Painting EXCEPT !.timers = @ - 1]))

\* resize of the window, which the constructor listens to.
Resize ==
  /\ event' = "resize"
  /\ action' = NoAction
  /\ Untouched
  /\ UNCHANGED <<controller, gesture>>
  /\ Paint(ScheduleConnectionsRender(Painting))

\* No callback and no timer is pending.
Settled == rafQueue = <<>> /\ timers = 0

\* The document the renderer shows first: a root with two children.
Document ==
  LET a == AddRootNodeCall(Empty, "t")
      b == AddChildNodeCall(a.f, a.node, "t")
      c == AddChildNodeCall(b.f, a.node, "t")
  IN  c.f

InitDrag ==
  \E f \in {Document} :
    /\ roots = f.roots
    /\ children = f.children
    /\ level = f.level
    /\ parentId = f.parentId
    /\ title = f.title
    /\ collapsed = f.collapsed
    /\ live = f.live
    /\ last = NoCall
    /\ pre = f
    /\ Constructed(f)
    /\ hit = NoHit
    /\ hitMode = NoMode
    /\ dom = NoDom
    /\ layout = NoLayout
    /\ rects = NoRects
    /\ lines = NoLines
    /\ trip = <<>>

\* The pointer events reach a page whose frames and timers have run: the
\* callbacks write no field that a pointer handler reads but dragRaf, which
\* guards a request only.
NextDrag ==
  \/ Settled /\ \E n \in Ids, onControl \in BOOLEAN : PointerDown(n, onControl)
  \/ Settled /\ \E n \in Ids : PointerMove(n)
  \/ Settled /\ \E n \in Ids : PointerUp(n)
  \/ Settled /\ \E n \in Ids : PointerCancel(n)
  \/ Settled /\ \E n \in Ids, onControl \in BOOLEAN : Click(n, onControl)
  \/ Frame
  \/ Timer

SpecDrag == InitDrag /\ [][NextDrag]_vars

\* The first child of the root of Document.
FirstChild == Document.children[Document.roots[1]][1]

\* The pointer events of one card, the resizes, the frames and the timers in
\* any order.
NextFrames ==
  \/ PointerDown(FirstChild, FALSE)
  \/ PointerMove(FirstChild)
  \/ PointerUp(FirstChild)
  \/ Resize
  \/ Frame
  \/ Timer

SpecFrames == InitDrag /\ [][NextFrames]_vars

-----------------------------------------------------------------------------
\* The drop zone of computeActiveDropIntent as a function of the geometry.

\* The pointer is on a row of a card.
InitZone ==
  /\ roots = <<>>
  /\ children = [n \in Ids |-> <<>>]
  /\ level = [n \in Ids |-> 0]
  /\ parentId = [n \in Ids |-> NULL]
  /\ title = [n \in Ids |-> ""]
  /\ collapsed = [n \in Ids |-> FALSE]
  /\ live = {}
  /\ last = NoCall
  /\ pre = Arena
  /\ Constructed(Empty)
  /\ \E top \in {0, MaxTop}, height \in 1..MaxHeight :
       \E clientY \in top..(top + height) :
         hit = [top |-> top, height |-> height, clientY |-> clientY]
  /\ hitMode = NoMode
  /\ dom = NoDom
  /\ layout = NoLayout
  /\ rects = NoRects
  /\ lines = NoLines
  /\ trip = <<>>

Classify ==
  /\ hitMode = NoMode
  /\ hitMode' = DropZone(hit.top, hit.height, hit.clientY)
  /\ UNCHANGED <<forest, controller, event, action, gesture, hit, painting, dom, layout,
                 rects, lines, trip>>

NextZone == Classify

SpecZone == InitZone /\ [][NextZone]_vars

-----------------------------------------------------------------------------
\* The normalisation pass as a function of the wrappers.

\* The wrappers with no children, cards 1..MaxCard high.
Leaves == {[card |-> c, kids |-> <<>>] : c \in 1..MaxCard}

\* A parent with its children; the first child may have children.
InitLayout ==
  /\ roots = <<>>
  /\ children = [n \in Ids |-> <<>>]
  /\ level = [n \in Ids |-> 0]
  /\ parentId = [n \in Ids |-> NULL]
  /\ title = [n \in Ids |-> ""]
  /\ collapsed = [n \in Ids |-> FALSE]
  /\ live = {}
  /\ last = NoCall
  /\ pre = Arena
  /\ Constructed(Empty)
  /\ hit = NoHit
  /\ hitMode = NoMode
  /\ \E card \in {1, MaxCard}, gap \in {0, MaxGap}, n \in 1..MaxKids, g \in 0..MaxGrand :
       \E first \in {[card |-> c, kids |-> k] : c \in 1..MaxCard, k \in [1..g -> 1..MaxCard]},
          rest \in [2..n -> Leaves] :
         dom = [card |-> card, gap |-> gap,
                kids |-> [i \in 1..n |-> IF i = 1 THEN first ELSE rest[i]]]
  /\ layout = NoLayout
  /\ rects = NoRects
  /\ lines = NoLines
  /\ trip = <<>>

Pass ==
  /\ layout = NoLayout
  /\ layout' = Normalized(dom)
  /\ UNCHANGED <<forest, controller, event, action, gesture, hit, hitMode, dom, painting,
                 rects, lines, trip>>

NextLayout == Pass

SpecLayout == InitLayout /\ [][NextLayout]_vars

-----------------------------------------------------------------------------
\* renderConnections as a function of the anchors.

\* The anchors of the cards of the children, and null.
ChildAnchors ==
  {[left |-> 4 * TrunkOffset + 2 * x, centerY |-> 2 * y] :
     x \in {0 - MaxLeft, 0, MaxLeft}, y \in 0..MaxCenter} \cup {NoRect}

InitConnections ==
  /\ roots = <<>>
  /\ children = [n \in Ids |-> <<>>]
  /\ level = [n \in Ids |-> 0]
  /\ parentId = [n \in Ids |-> NULL]
  /\ title = [n \in Ids |-> ""]
  /\ collapsed = [n \in Ids |-> FALSE]
  /\ live = {}
  /\ last = NoCall
  /\ pre = Arena
  /\ Constructed(Empty)
  /\ hit = NoHit
  /\ hitMode = NoMode
  /\ dom = NoDom
  /\ layout = NoLayout
  /\ \E right \in {0, 2 * MaxRight}, centerY \in {0, 2 * MaxCenter}, n \in 1..MaxRects :
       \E kids \in [1..n -> ChildAnchors] :
         rects = [parent |-> [right |-> right, centerY |-> centerY], kids |-> kids]
  /\ lines = NoLines
  /\ trip = <<>>

RenderConnections ==
  /\ ~lines.drawn
  /\ lines' = RenderNodeConnections(rects)
  /\ UNCHANGED <<forest, controller, event, action, gesture, hit, hitMode, dom, layout,
                 rects, painting, trip>>

NextConnections == RenderConnections

SpecConnections == InitConnections /\ [][NextConnections]_vars
-----------------------------------------------------------------------------
\* MarkdownParser.parse and MarkdownParser.serialize as functions of their
\* argument.  A string is the sequence of its characters.

\* The heading levels the pattern admits: #{1,6}
MaxLevel == 6
\* Lines in a text, and the longest run of whitespace in a line.
MaxLines == 3
MaxSpaces == 2

\* What \s and trim() take for whitespace, of the characters in use.
Whitespace == {" ", "\t", "\n"}

\* The number of characters of s from position from on that are in C.
RunLength(s, from, C) ==
  Cardinality({k \in 1..(Len(s) - from + 1) :
                 \A j \in from..(from + k - 1) : s[j] \in C})

\* String.prototype.trim()
Trim(s) ==
  LET a == RunLength(s, 1, Whitespace)
      t == SubSeq(s, a + 1, Len(s))
      b == RunLength([i \in 1..Len(t) |-> t[Len(t) + 1 - i]], 1, Whitespace)
  IN  SubSeq(t, 1, Len(t) - b)

\* markdown.split('\n')
RECURSIVE Split(_)
Split(s) ==
  LET i == RunLength(s, 1, {s[j] : j \in 1..Len(s)} \ {"\n"}) IN
  IF i = Len(s) THEN <<s>>
  ELSE <<SubSeq(s, 1, i)>> \o Split(SubSeq(s, i + 2, Len(s)))

\* lines.join('\n')
RECURSIVE Join(_)
Join(ls) ==
  IF ls = <<>> THEN <<>>
  ELSE IF Len(ls) = 1 THEN ls[1]
  ELSE ls[1] \o <<"\n">> \o Join(Tail(ls))

\* '#'.repeat(k)
Hashes(k) == [i \in 1..k |-> "#"]

\* line.match(/^(#{1,6})\s+(.+)$/): the two groups, or null.  The markers
\* are all the "#" the line starts with (a shorter run is followed by "#",
\* which \s+ does not take); \s+ takes the whole run of whitespace, and gives
\* its last character back when nothing is left for (.+).
HeadingMatch(line) ==
  LET h == RunLength(line, 1, {"#"})
      w == RunLength(line, h + 1, Whitespace)
      rest == SubSeq(line, h + w + 1, Len(line))
  IN  IF h \in 1..MaxLevel /\ w >= 1 /\ rest # <<>>
        THEN [matched |-> TRUE, markers |-> h, rest |-> rest]
      ELSE IF h \in 1..MaxLevel /\ w >= 2
        THEN [matched |-> TRUE, markers |-> h, rest |-> <<line[Len(line)]>>]
      ELSE [matched |-> FALSE, markers |-> 0, rest |-> <<>>]

\* currentNode.description = descriptionLines.join('\n').trim()
SaveDescription(st) ==
  IF st.currentNode # NULL /\ st.descriptionLines # <<>>
    THEN [st EXCEPT !.doc.nodes[st.currentNode].description =
                       Trim(Join(st.descriptionLines))]
    ELSE st

\* while (nodeStack.length > 0 && top.level >= level) nodeStack.pop()
RECURSIVE Popped(_, _, _)
Popped(doc, nodeStack, lvl) ==
  IF nodeStack # <<>> /\ doc.nodes[nodeStack[Len(nodeStack)]].level >= lvl
    THEN Popped(doc, SubSeq(nodeStack, 1, Len(nodeStack) - 1), lvl)
    ELSE nodeStack

\* The body of the loop for a line that is a heading.  The nodes a call
\* returns are the objects in the order they were made, each known by its
\* place in that order, and the root array; description is <<>> for a node
\* that has none.
ParseHeading(st, m) ==
  LET saved == SaveDescription(st)
      cleared == IF st.currentNode # NULL /\ st.descriptionLines # <<>>
                   THEN [saved EXCEPT !.descriptionLines = <<>>] ELSE saved
      lvl == m.markers
      n == Len(cleared.doc.nodes) + 1
      stack == Popped(cleared.doc, cleared.nodeStack, lvl)
      pid == IF stack = <<>> THEN NULL ELSE stack[Len(stack)]
      node == [title |-> Trim(m.rest), level |-> lvl, description |-> <<>>,
               parentId |-> pid, children |-> <<>>, collapsed |-> FALSE]
      made == Append(cleared.doc.nodes, node)
      doc == IF pid = NULL
               THEN [roots |-> Append(cleared.doc.roots, n), nodes |-> made]
               ELSE [roots |-> cleared.doc.roots,
                     nodes |-> [made EXCEPT ![pid].children = Append(@, n)]]
  IN  [doc |-> doc, nodeStack |-> Append(stack, n), currentNode |-> n,
       descriptionLines |-> cleared.descriptionLines]

\* The loop over the lines.
RECURSIVE ParseLines(_, _)
ParseLines(st, ls) ==
  IF ls = <<>> THEN st
  ELSE LET line == Head(ls)
           m == HeadingMatch(line)
           next == IF m.matched THEN ParseHeading(st, m)
                   ELSE IF st.currentNode # NULL /\ Trim(line) # <<>>
                     THEN [st EXCEPT !.descriptionLines = Append(@, line)]
                   ELSE st
       IN  ParseLines(next, Tail(ls))

\* parse(markdown)
Parse(markdown) ==
  LET start == [doc |-> [roots |-> <<>>, nodes |-> <<>>], nodeStack |-> <<>>,
                currentNode |-> NULL, descriptionLines |-> <<>>]
  IN  SaveDescription(ParseLines(start, Split(markdown))).doc

\* Mutant of Heading: the title follows the markers at once.
HeadingWithoutSpace(node) == Hashes(node.level) \o node.title

\* '#'.repeat(node.level) + ' ' + node.title
Heading(node) == Hashes(node.level) \o <<" ">> \o node.title

\* serializeNode(node): the lines it pushes.
RECURSIVE SerializeNode(_, _)
RECURSIVE SerializeAll(_, _)
SerializeNode(doc, n) ==
  <<Heading(doc.nodes[n])>>
    \o (IF doc.nodes[n].description # <<>>
          THEN <<<<>>, doc.nodes[n].description>> ELSE <<>>)
    \o <<<<>>>>
    \o SerializeAll(doc, doc.nodes[n].children)

\* for (const child of ids) serializeNode(child)
SerializeAll(doc, ids) ==
  IF ids = <<>> THEN <<>>
  ELSE SerializeNode(doc, Head(ids)) \o SerializeAll(doc, Tail(ids))

\* serialize(nodes)
Serialize(doc) == Trim(Join(SerializeAll(doc, doc.roots)))

\* The texts parse is given: up to k lines, each of so many "#", so much
\* whitespace, a word or none, and so much whitespace after it.
RECURSIVE Texts(_)
Texts(k) ==
  LET ls == {Hashes(c[1]) \o [i \in 1..c[2] |-> " "] \o c[3] \o [i \in 1..c[4] |-> " "] :
               c \in {<<0, 0, <<>>, 0>>, <<0, 1, <<>>, 0>>, <<0, 0, <<"a">>, 0>>,
                      <<1, 1, <<"a">>, 0>>, <<2, 1, <<"a">>, 0>>,
                      <<1, MaxSpaces, <<"a">>, 0>>, <<1, 1, <<"a">>, 1>>,
                      <<1, 0, <<"a">>, 0>>, <<1, 1, <<>>, 0>>,
                      <<1, MaxSpaces, <<>>, 0>>,
                      <<MaxLevel, 1, <<"a">>, 0>>, <<MaxLevel + 1, 1, <<"a">>, 0>>}}
  IN  IF k = 1 THEN ls
      ELSE Texts(k - 1) \cup {t \o <<"\n">> \o l : t \in Texts(k - 1), l \in ls}

\* The forests the tree operations make of the empty forest, called with
\* the empty title of addSiblingNode and addChildNode or with a word.
RECURSIVE Grown(_)
Grown(k) ==
  IF k = 0 THEN {Empty}
  ELSE LET B == Grown(k - 1)
           T == {"", "t"}
       IN  B \cup {AddRootNodeCall(f, t).f : f \in B, t \in T}
             \cup UNION {{AddChildNodeCall(f, n, t).f : n \in f.live, t \in T} : f \in B}
             \cup UNION {{AddSiblingNodeCall(f, n, t).f : n \in f.live, t \in T} : f \in B}

\* The arena f as the nodes serialize is given, a title as its characters;
\* node `described`, if any, was given a description by updateNode.
NodesOf(f, described) ==
  [roots |-> f.roots,
   nodes |-> [n \in 1..Cardinality(f.live) |->
                [title |-> IF f.title[n] = "" THEN <<>> ELSE <<f.title[n]>>,
                 level |-> f.level[n],
                 description |-> IF n = described THEN <<"d">> ELSE <<>>,
                 parentId |-> f.parentId[n], children |-> f.children[n],
                 collapsed |-> f.collapsed[n]]]]

InitMarkdown ==
  /\ roots = <<>>
  /\ children = [n \in Ids |-> <<>>]
  /\ level = [n \in Ids |-> 0]
  /\ parentId = [n \in Ids |-> NULL]
  /\ title = [n \in Ids |-> ""]
  /\ collapsed = [n \in Ids |-> FALSE]
  /\ live = {}
  /\ last = NoCall
  /\ pre = Arena
  /\ Constructed(Empty)
  /\ hit = NoHit
  /\ hitMode = NoMode
  /\ dom = NoDom
  /\ layout = NoLayout
  /\ rects = NoRects
  /\ lines = NoLines
  /\ trip \in {<<[kind |-> "text", text |-> t]>> : t \in Texts(MaxLines)}
         \cup UNION {{<<[kind |-> "nodes", doc |-> NodesOf(f, d)]>> :
                        d \in f.live \cup {NULL}} : f \in Grown(MaxNodes)}

\* parse is applied to the text the trip has come to.
ParseMarkdown ==
  /\ Len(trip) \in 1..2
  /\ trip[Len(trip)].kind = "text"
  /\ trip' = Append(trip, [kind |-> "nodes", doc |-> Parse(trip[Len(trip)].text)])
  /\ UNCHANGED <<forest, controller, event, action, gesture, geometry, painting>>

\* serialize is applied to the nodes the trip has come to.
SerializeNodes ==
  /\ Len(trip) \in 1..2
  /\ trip[Len(trip)].kind = "nodes"
  /\ trip' = Append(trip, [kind |-> "text", text |-> Serialize(trip[Len(trip)].doc)])
  /\ UNCHANGED <<forest, controller, event, action, gesture, geometry, painting>>

NextMarkdown == ParseMarkdown \/ SerializeNodes

SpecMarkdown == InitMarkdown /\ [][NextMarkdown]_vars
-----------------------------------------------------------------------------
\* Vocabulary of the properties.

\* The ids an array holds.
Range(s) == {s[i] : i \in 1..Len(s)}

\* How often id n occurs in array s.
Count(s, n) == Cardinality({i \in 1..Len(s) : s[i] = n})

\* How often id n occurs in the arrays of the arena.
Occurrences(f, n) ==
  Count(f.roots, n)
    + Cardinality({c \in f.live : Count(f.children[c], n) = 1})
    + 2 * Cardinality({c \in f.live : Count(f.children[c], n) > 1})

RECURSIVE Below(_, _, _)
\* The objects reached from the set S in at most k steps along children
\* (well defined on a cyclic arena too).
Below(f, S, k) ==
  IF k = 0 THEN S
  ELSE Below(f, S \cup UNION {Range(f.children[m]) : m \in S}, k - 1)

\* The proper descendants of n.
Descendants(f, n) == Below(f, Range(f.children[n]), MaxNodes)

\* Both ids name nodes of the forest, they differ, and the target is not
\* inside the moved node's subtree.
LegalMove(f, id, target) ==
  /\ id # target
  /\ FindNodeById(f, id)
  /\ FindNodeById(f, target)
  /\ target \notin Descendants(f, id)

\* The 0-based place of a node of the forest in its containing array.
IndexOf(f, n) == FindIndex(Arr(f, FindNodeWithParent(f, n)), n)

\* A moveNode call is the last thing that happened.
Moved == last.op = "moveNode"

-----------------------------------------------------------------------------
\* C1: moveNode(A, B, mode, position) with B a proper descendant of A returns
\* false and leaves the forest unchanged.
MoveIntoDescendantRejected ==
  (Moved /\ last.target \in Descendants(pre, last.id))
    => (last.ret = "false" /\ Arena = pre)

\* C2: the children relation over all live nodes is acyclic: no node is its
\* own ancestor.
Acyclic == \A n \in live : n \notin Descendants(Arena, n)

\* C3: every root of the forest has level 1 and every other node of the
\* forest has its parent's level + 1.  The nodes of the forest are all the
\* live nodes as long as every move was legal.
LevelInvariant ==
  /\ \A n \in Range(roots) : level[n] = 1
  /\ \A n \in ForestNodes(Arena) : \A c \in Range(children[n]) : level[c] = level[n] + 1

\* C3's case: a legal move carried a node with children to another depth.
LevelWitness ==
  /\ Moved /\ last.ret = "true"
  /\ LegalMove(pre, last.id, last.target)
  /\ pre.children[last.id] # <<>>
  /\ level[last.id] # pre.level[last.id]

\* C4: every node of the forest has the id of the node whose children hold it
\* as parentId, and null exactly when the root array holds it.
ParentIdInvariant ==
  /\ \A n \in Range(roots) : parentId[n] = NULL
  /\ \A n \in ForestNodes(Arena) : \A c \in Range(children[n]) : parentId[c] = n

\* C4's case: a legal sibling move took a node to another parent.
ParentIdWitness ==
  /\ Moved /\ last.ret = "true" /\ last.mode = "sibling"
  /\ LegalMove(pre, last.id, last.target)
  /\ parentId[last.id] # pre.parentId[last.id]
  /\ parentId[last.id] # NULL

\* C5: every live node occurs in exactly one array, once, and no array holds
\* an id that is not a live node's.
UniqueOwnership ==
  /\ \A n \in live : Occurrences(Arena, n) = 1
  /\ \A n \in Ids \ live : Occurrences(Arena, n) = 0

\* C5's case: a move took a node out of one array and put it into another.
OwnershipWitness ==
  /\ Moved /\ last.ret = "true"
  /\ LegalMove(pre, last.id, last.target)
  /\ FindNodeWithParent(Arena, last.id) # FindNodeWithParent(pre, last.id)

\* C6: every tree operation terminates and returns a value; none throws,
\* whatever ids it is given.
NeverThrows == last.ret # "throw"

\* C7: moveNode(A, A, mode, position) returns false and leaves the forest
\* unchanged.
SelfMoveRejected ==
  (Moved /\ last.id = last.target) => (last.ret = "false" /\ Arena = pre)

\* C7's case: a node of the forest was moved onto itself.
SelfMoveWitness ==
  /\ Moved /\ last.id = last.target
  /\ FindNodeById(pre, last.id)
  /\ pre.children[last.id] # <<>>

\* C8: an id that names no node of the forest makes addSiblingNode and
\* addChildNode return null, deleteNode, updateNode, toggleCollapsed and
\* moveNode (source or target) return false, and the forest stays as it was.
AbsentIdRejected ==
  /\ (last.op \in {"addSiblingNode", "addChildNode"} /\ ~FindNodeById(pre, last.id))
       => (last.ret = "null" /\ Arena = pre)
  /\ (last.op \in {"deleteNode", "updateNode", "toggleCollapsed"}
        /\ ~FindNodeById(pre, last.id))
       => (last.ret = "false" /\ Arena = pre)
  /\ (Moved /\ (~FindNodeById(pre, last.id) \/ ~FindNodeById(pre, last.target)))
       => (last.ret = "false" /\ Arena = pre)

\* C8's case: addSiblingNode was called on a forest with nodes, with an id
\* none of them has.
AbsentIdWitness ==
  /\ last.op = "addSiblingNode"
  /\ ~FindNodeById(pre, last.id)
  /\ pre.roots # <<>>

\* C9: after a legal moveNode(id, targetId, 'sibling', 'before' | 'after') the
\* moved node is in the target's containing array, immediately before
\* (immediately after) the target.
SiblingPlacement ==
  (/\ Moved /\ last.ret = "true" /\ last.mode = "sibling"
   /\ last.position \in {"before", "after"}
   /\ LegalMove(pre, last.id, last.target))
    => /\ FindNodeWithParent(Arena, last.id) = FindNodeWithParent(Arena, last.target)
       /\ FindNodeWithParent(Arena, last.id) # NotFound
       /\ IndexOf(Arena, last.id)
            = IndexOf(Arena, last.target) + (IF last.position = "after" THEN 1 ELSE -1)

\* C9's case: B and C are the children of A, in this order, and
\* moveNode(B, C, 'sibling', 'after') leaves A with the children C, B.
SiblingPlacementWitness ==
  /\ Moved /\ last.ret = "true" /\ last.mode = "sibling" /\ last.position = "after"
  /\ pre.parentId[last.id] # NULL
  /\ pre.children[pre.parentId[last.id]] = <<last.id, last.target>>
  /\ children[pre.parentId[last.id]] = <<last.target, last.id>>

\* C10: after a legal moveNode(id, targetId, 'sibling', 'append') the moved
\* node is the last element of the target's containing array.
AppendPlacesLast ==
  (/\ Moved /\ last.ret = "true" /\ last.mode = "sibling" /\ last.position = "append"
   /\ LegalMove(pre, last.id, last.target))
    => LET s == Arr(Arena, FindNodeWithParent(Arena, last.target))
       IN  s[Len(s)] = last.id

\* A legal moveNode(id, targetId, 'child', position) has returned true.
ChildMoved ==
  /\ Moved /\ last.ret = "true" /\ last.mode = "child"
  /\ LegalMove(pre, last.id, last.target)

\* C11, as stated: after a legal child move the moved node is the last of the
\* target's children, has the target's id as parentId, and is no longer in
\* the array that held it.
ChildPlacementLeavesFormer ==
  ChildMoved =>
    /\ children[last.target] # <<>>
    /\ children[last.target][Len(children[last.target])] = last.id
    /\ parentId[last.id] = last.target
    /\ last.id \notin Range(Arr(Arena, FindNodeWithParent(pre, last.id)))

\* C11, amended: the moved node is the last of the target's children, which
\* hold it once, has the target's id as parentId, and is no longer in the
\* array that held it unless that array is the target's children.
ChildPlacement ==
  ChildMoved =>
    /\ children[last.target] # <<>>
    /\ children[last.target][Len(children[last.target])] = last.id
    /\ Count(children[last.target], last.id) = 1
    /\ parentId[last.id] = last.target
    /\ FindNodeWithParent(pre, last.id) # last.target
         => last.id \notin Range(Arr(Arena, FindNodeWithParent(pre, last.id)))

\* C11's case: a node left the array it was in, which keeps other nodes, and
\* became the last child of a target that had children already.
ChildPlacementWitness ==
  /\ ChildMoved
  /\ FindNodeWithParent(pre, last.id) # last.target
  /\ pre.children[last.target] # <<>>
  /\ Len(Arr(pre, FindNodeWithParent(pre, last.id))) > 1

\* The arrays of arena g other than container c are those of arena f.
OtherArraysKept(f, g, c) ==
  /\ c # NULL => g.roots = f.roots
  /\ \A m \in f.live \ {c} : g.children[m] = f.children[m]

\* The nodes of arena f have the same level and parentId in arena g.
PlacesKept(f, g, nodes) ==
  \A m \in nodes : g.level[m] = f.level[m] /\ g.parentId[m] = f.parentId[m]

\* addSiblingNode(X, t) has returned a node.
SiblingAdded == last.op = "addSiblingNode" /\ last.ret = "node"

\* C12: addSiblingNode(X, t) with X in the forest creates exactly one node,
\* right after X in X's containing array and before X's former next
\* sibling, with X's level and parentId; no other node moves.
SiblingInsertion ==
  SiblingAdded =>
    LET c == FindNodeWithParent(pre, last.id)
        s == Arr(pre, c)
        i == FindIndex(s, last.id) + 1
    IN
      /\ last.node \notin pre.live
      /\ live = pre.live \cup {last.node}
      /\ Arr(Arena, c) = SubSeq(s, 1, i) \o <<last.node>> \o SubSeq(s, i + 1, Len(s))
      /\ level[last.node] = pre.level[last.id]
      /\ parentId[last.node] = pre.parentId[last.id]
      /\ children[last.node] = <<>>
      /\ OtherArraysKept(pre, Arena, c)
      /\ PlacesKept(pre, Arena, pre.live)

\* C12's case: X had a next sibling.
SiblingInsertionWitness ==
  /\ SiblingAdded
  /\ FindIndex(Arr(pre, FindNodeWithParent(pre, last.id)), last.id) + 1
       < Len(Arr(pre, FindNodeWithParent(pre, last.id)))

\* deleteNode(id) was called with id in the forest.
Deleted == last.op = "deleteNode" /\ FindNodeById(pre, last.id)

\* Sequence s without the element x.
Without(s, x) == SelectSeq(s, LAMBDA e : e # x)

\* C13: deleteNode(id) with id in the forest returns true and removes the
\* node and its descendants, nothing else: the forest holds the nodes outside
\* that subtree, in the same arrays and order, with their levels and parentIds.
DeleteRemovesSubtree ==
  Deleted =>
    LET gone == {last.id} \cup Descendants(pre, last.id)
        kept == ForestNodes(pre) \ gone
    IN
      /\ last.ret = "true"
      /\ ForestNodes(Arena) = kept
      /\ roots = Without(pre.roots, last.id)
      /\ \A m \in kept : children[m] = Without(pre.children[m], last.id)
      /\ PlacesKept(pre, Arena, kept)

\* C13's case: the deleted node had a child and a following sibling.
DeleteWitness ==
  /\ Deleted
  /\ pre.children[last.id] # <<>>
  /\ LET s == Arr(pre, FindNodeWithParent(pre, last.id))
     IN  FindIndex(s, last.id) + 1 < Len(s)

\* C14: updateNode leaves the structure as it found it, whatever fields the
\* caller passes: no level, parentId or children array differs afterwards.
UpdateKeepsStructure ==
  last.op = "updateNode" =>
    /\ roots = pre.roots
    /\ children = pre.children
    /\ level = pre.level
    /\ parentId = pre.parentId
    /\ live = pre.live

\* toggleCollapsed(id) was called with id in the forest.
Toggled == last.op = "toggleCollapsed" /\ FindNodeById(pre, last.id)

\* C15: toggleCollapsed(id) flips the collapsed flag of that node and of no
\* other, descendants included, and leaves the structure as it was.
ToggleFlipsOne ==
  Toggled =>
    /\ last.ret = "true"
    /\ collapsed[last.id] = ~pre.collapsed[last.id]
    /\ \A m \in Ids \ {last.id} : collapsed[m] = pre.collapsed[m]
    /\ roots = pre.roots
    /\ children = pre.children
    /\ level = pre.level
    /\ parentId = pre.parentId
    /\ title = pre.title
    /\ live = pre.live

\* C15's case: the toggled node has a descendant whose flag differs from the
\* one the node takes.
ToggleWitness ==
  /\ Toggled
  /\ \E m \in Descendants(pre, last.id) : pre.collapsed[m] # collapsed[last.id]

RECURSIVE AncestorsFromRoot(_, _, _)
\* The ancestors of n, the root first and the parent of n last; none for a
\* root or a node the forest does not hold.  k bounds the climb.
AncestorsFromRoot(f, n, k) ==
  LET c == FindNodeWithParent(f, n) IN
  IF k = 0 \/ c = NotFound \/ c = NULL THEN <<>>
  ELSE AncestorsFromRoot(f, c, k - 1) \o <<c>>

\* C16: getParentChain(id) returns the ancestors of the node from the root
\* down to its parent, and the empty sequence for a root or an absent id.
ChainFromRoot ==
  last.op = "getParentChain" => last.chain = AncestorsFromRoot(pre, last.id, MaxNodes)

\* pointerup and pointercancel.
Releases == {"pointerup", "pointercancel"}

\* The last event passed 'reorder' to onNodeAction.
Reordered == action.action = "reorder"

\* C18: a pointercancel emits no 'reorder'.
CancelEmitsNothing == event = "pointercancel" => ~Reordered

\* C20: no 'reorder' is emitted for a node whose gesture started on a root
\* card.
RootNeverReordered == Reordered => ~gesture.root

\* C19: a gesture none of whose pointermoves is more than Threshold away from
\* its pointerdown never drags and emits no 'reorder'; a click selects.
ClickBelowThreshold ==
  /\ dragActive => gesture.far
  /\ Reordered => gesture.far
  /\ event = "click" => action.action \in {"select", "none"}

ClickBelowThresholdWitness ==
  /\ event = "pointerup"
  /\ gesture.node # NULL
  /\ ~gesture.open
  /\ gesture.edge
  /\ ~gesture.far
  /\ ~Reordered

IntentOutsideSubtree ==
  /\ draggingNodeId # NULL /\ dragActive /\ dropTargetId # NULL
       => /\ dropTargetId # draggingNodeId
          /\ dropTargetId \notin Descendants(Arena, draggingNodeId)
  /\ Reordered
       => /\ action.targetId # action.nodeId
          /\ action.targetId \notin Descendants(pre, action.nodeId)

\* C22: with y the offset of the pointer from the card's top and h the
\* card's height, the mode is sibling-before when y < h/4, sibling-after when
\* y > 3h/4 and child otherwise; on a card over rows 100..200, row 120 is
\* sibling-before, row 150 child and row 190 sibling-after.
ZoneQuartiles ==
  hitMode # NoMode =>
    LET y == hit.clientY - hit.top
        h == hit.height
    IN
      /\ hitMode = "sibling-before" <=> 4 * y < h
      /\ hitMode = "sibling-after" <=> 4 * y > 3 * h
      /\ hitMode = "child" <=> (4 * y >= h /\ 4 * y <= 3 * h)
      /\ hit.top = 100 /\ h = 100 /\ hit.clientY = 120 => hitMode = "sibling-before"
      /\ hit.top = 100 /\ h = 100 /\ hit.clientY = 150 => hitMode = "child"
      /\ hit.top = 100 /\ h = 100 /\ hit.clientY = 190 => hitMode = "sibling-after"

\* C22's case: the pointer on the upper boundary of the card over rows
\* 100..200.
ZoneQuartilesWitness ==
  /\ hitMode = "child"
  /\ hit = [top |-> 100, height |-> 100, clientY |-> 125]

\* C29: in the pass, child i of a parent is put at the sum of the heights of
\* the children before it plus i gaps, so that no child reaches into the
\* next; the children block is sum(heights) + gap * (n - 1) high, the
\* subtree max(card, block) high, and the height of a child is the height its
\* own pass has given its subtree.
CumulativeOffsets ==
  layout # NoLayout =>
    LET n == Len(dom.kids)
        own(k) == IF k.kids = <<>> THEN k.card
                  ELSE Max(k.card, Sum(k.kids) + dom.gap * (Len(k.kids) - 1))
        heights == [i \in 1..n |-> own(dom.kids[i])]
        walk == layout.walk
    IN  /\ walk.childHeights = heights
        /\ Len(walk.tops) = n
        /\ \A i \in 1..n : walk.tops[i] = Sum(SubSeq(heights, 1, i - 1)) + (i - 1) * dom.gap
        /\ \A i \in 1..(n - 1) : walk.tops[i] + heights[i] <= walk.tops[i + 1]
        /\ walk.totalHeight = Sum(heights) + dom.gap * (n - 1)
        /\ walk.subtreeHeight = Max(dom.card, walk.totalHeight)
        /\ \A i \in 1..n :
             dom.kids[i].kids # <<>> =>
               \A j \in 1..Len(dom.kids[i].kids) :
                 walk.kids[i].tops[j]
                   = Sum(SubSeq(dom.kids[i].kids, 1, j - 1)) + (j - 1) * dom.gap

\* C29's case: three children and a gap, the first child higher by its own
\* children than by its card.
CumulativeOffsetsWitness ==
  /\ layout # NoLayout
  /\ Len(dom.kids) >= 3
  /\ dom.gap > 0
  /\ dom.kids[1].kids # <<>>
  /\ layout.walk.childHeights[1] > dom.kids[1].card
  /\ layout.walk.tops[3] > layout.walk.tops[2]

\* C28: after the pass on a parent whose children have distinct heights, the
\* center of the parent's card is within 1 pixel of the median of the centers
\* of its children's cards.
CenteredOnMedian ==
  LET heights == layout.walk.childHeights IN
  /\ layout # NoLayout
  /\ \A i, j \in DOMAIN heights : i # j => heights[i] # heights[j]
  => Abs(ParentCenter(layout.walk) - Median(Sort(ChildCenters(layout.walk)))) <= 4

\* C23: a release that ends a gesture with no drop intent emits no 'reorder',
\* and once the drag callback pending at the release has run the wrapper of
\* the card carries no drag transform.
SpringBackClears ==
  ~gesture.open /\ ~gesture.intent /\ gesture.node # NULL /\ draggingNodeId = NULL
    => /\ event \in Releases => ~Reordered
       /\ ~dragRaf => gesture.node \notin transformed

\* C24: the placeholder is displayed only while dropMode and dropTargetId are
\* both set, and only for a gesture in progress that can have resolved them: a
\* drag, of a card that is not a root, not yet released.
PlaceholderTracksIntent ==
  placeholderShown =>
    /\ dropMode # NoMode /\ dropTargetId # NULL
    /\ gesture.open /\ draggingNodeId = gesture.node /\ dragActive /\ ~gesture.root

\* C25: normalizePasses never exceeds PassBudget; a frame in which the
\* callback of scheduleConnectionsRender ran the pass either draws the
\* connectors and resets the counter, or counts one rerun and requests it;
\* and with the budget spent it draws whether or not the pass reported a
\* change.
BudgetedNormalization ==
  /\ normalizePasses <= PassBudget
  /\ frame.passed =>
       \/ frame.drew /\ normalizePasses = 0 /\ (frame.changed => frame.spent)
       \/ /\ ~frame.drew /\ frame.changed /\ ~frame.spent
          /\ normalizePasses >= 1 /\ connectionsRaf
  /\ frame.spent => frame.drew

\* C25's case: the pass still reports a change when the budget is spent, and
\* the connectors are drawn.
BudgetedNormalizationWitness ==
  /\ event = "frame"
  /\ frame.passed /\ frame.changed /\ frame.spent /\ frame.drew
  /\ normalizePasses = 0
  /\ ~connectionsRaf


\* C26 as stated: renderConnections runs only in a frame whose pass reported
\* no change or found the budget spent.
ConnectorsAfterSettledPass ==
  frame.drew => frame.passed /\ (~frame.changed \/ frame.spent)

\* C26: while no drag is active renderConnections runs only in a frame whose
\* pass reported no change or found the budget spent; while a drag is active
\* it runs with no pass of the callback.
ConnectorsAfterSettledPassUnlessDragging ==
  frame.drew =>
    IF dragActive THEN ~frame.passed
    ELSE frame.passed /\ (~frame.changed \/ frame.spent)

\* C26's case: the connectors are drawn during a drag.
ConnectorsDrawnWhileDragging ==
  /\ event = "frame"
  /\ frame.drew
  /\ dragActive
  /\ draggingNodeId \in transformed

\* C27: at most one pending callback will run normalizeAllLayouts, and the
\* callbacks of one frame run it at most once.
OneNormalizationPending ==
  /\ Renders(rafQueue) + (IF connectionsRaf THEN 1 ELSE 0) <= 1
  /\ frame.normalizations <= 1

\* The rects renderConnections keeps: the snapped anchors of the children
\* that have a card.
Kept == SelectSeq([i \in DOMAIN rects.kids |->
                     IF rects.kids[i] = NoRect THEN NoRect
                     ELSE [left |-> Snap(rects.kids[i].left),
                           centerY |-> Snap(rects.kids[i].centerY)]],
                  LAMBDA c : c # NoRect)

\* C30: for a parent with rendered children the trunk is at min(parent right
\* edge + 32, smallest child left edge), so never right of the left edge of a
\* child; it spans from the smallest to the largest child center; and every
\* rendered child has exactly one branch, from the trunk to its left edge at
\* its center.
TrunkAndBranches ==
  lines.drawn /\ Kept # <<>> =>
    LET n == Len(Kept)
        offset == Snap(rects.parent.right) + 4 * TrunkOffset
        x == lines.trunk[1]
    IN  /\ \A i \in 1..n : x <= Kept[i].left
        /\ x <= offset
        /\ x = offset \/ \E i \in 1..n : x = Kept[i].left
        /\ lines.trunk[3] = x
        /\ \A i \in 1..n : lines.trunk[2] <= Kept[i].centerY /\ Kept[i].centerY <= lines.trunk[4]
        /\ \E i \in 1..n : lines.trunk[2] = Kept[i].centerY
        /\ \E i \in 1..n : lines.trunk[4] = Kept[i].centerY
        /\ Len(lines.branches) = n
        /\ \A i \in 1..n :
             lines.branches[i] = <<x, Kept[i].centerY, Kept[i].left, Kept[i].centerY>>

\* C30's case: the nearest child is nearer than the offset, and the children
\* are not in the order of their centers.
TrunkAndBranchesWitness ==
  /\ lines.drawn
  /\ Len(Kept) >= 2
  /\ lines.trunk[1] < Snap(rects.parent.right) + 4 * TrunkOffset
  /\ Kept[1].centerY > Kept[2].centerY
  /\ \E i \in 1..Len(Kept) : Kept[i].left > lines.trunk[1]

-----------------------------------------------------------------------------
\* C37: moveNode returns false only when it has changed nothing: no call
\* takes the source out of its array and then returns false.
FalseMeansUntouched == (Moved /\ last.ret = "false") => Arena = pre

\* C37's case: both nodes are in the forest and the source has left its
\* array when a sibling move looks the target up again, and finds it.
FalseMeansUntouchedWitness ==
  /\ Moved /\ last.mode = "sibling" /\ last.ret = "true"
  /\ FindNodeWithParent(pre, last.id) = FindNodeWithParent(pre, last.target)
  /\ Arena # pre

\* The nodes of the subtree of n, n included.
SubtreeOf(f, n) == {n} \cup Descendants(f, n)

\* C38: a moveNode call that returns true keeps the set of nodes of the
\* forest, each held once, keeps the order inside the moved subtree and the
\* relative order of all other siblings, and changes no field but the moved
\* node's parentId and the levels inside the moved subtree.
MoveKeepsTheRest ==
  (Moved /\ last.ret = "true") =>
    /\ ForestNodes(Arena) = ForestNodes(pre)
    /\ \A n \in ForestNodes(pre) : Occurrences(Arena, n) = 1
    /\ Without(roots, last.id) = Without(pre.roots, last.id)
    /\ \A n \in live : Without(children[n], last.id) = Without(pre.children[n], last.id)
    /\ title = pre.title
    /\ collapsed = pre.collapsed
    /\ \A n \in live \ {last.id} : parentId[n] = pre.parentId[n]
    /\ \A n \in live \ SubtreeOf(pre, last.id) : level[n] = pre.level[n]

\* The controller holds a drop intent.
IntentSet == dropTargetId # NULL \/ dropMode # NoMode

\* The controller is idle: no node is being dragged and no intent is held.
ControllerIdle == draggingNodeId = NULL /\ ~dragActive /\ ~IntentSet

\* C35: dragActive implies draggingNodeId is set; dropMode is set exactly
\* when dropTargetId is; a drop intent is set only while dragActive; and
\* after a pointerup or pointercancel that ended the gesture the controller
\* is idle.
ControllerConsistent ==
  /\ dragActive => draggingNodeId # NULL
  /\ (dropMode # NoMode) <=> (dropTargetId # NULL)
  /\ IntentSet => dragActive
  /\ (event \in Releases /\ gesture.node # NULL /\ ~gesture.open) => ControllerIdle

\* C32: while a drag is active no normalization pass is executed: a frame
\* that runs during the drag calls normalizeAllLayouts in none of its
\* callbacks, whatever was requested before or during the drag.
NoPassWhileDragging == (event = "frame" /\ dragActive) => frame.normalizations = 0

\* C36: whenever no connections frame is pending normalizePasses is 0, so
\* every layout request starts with the whole budget, also when a drag
\* started or ended while a rerun was pending.
PassesResetWhenSettled == ~connectionsRaf => normalizePasses = 0

\* The application has passed the data of the 'reorder' emitted to moveNode.
PassedToMoveNode(a, call) ==
  /\ call.op = "moveNode"
  /\ call.id = a.nodeId
  /\ call.target = a.targetId
  /\ call.mode = a.mode
  /\ call.position = PositionOrAppend(a.position)

\* C34: the 'reorder' emitted on release carries the intent the last
\* pointermove of the gesture resolved: child gives {mode: child, targetId},
\* sibling-before {mode: sibling, position: before, targetId}, sibling-after
\* {mode: sibling, position: after, targetId}; the application passes these
\* to moveNode and renders again.
ReorderCarriesLastIntent ==
  [][(event' \in Releases /\ Reordered') =>
       /\ gesture.open
       /\ gesture.resolved # NoIntent
       /\ action'.nodeId = gesture.node
       /\ action'.targetId = gesture.resolved.targetId
       /\ action'.mode = (IF gesture.resolved.mode = "child" THEN "child" ELSE "sibling")
       /\ action'.position =
            (IF gesture.resolved.mode = "sibling-before" THEN "before"
             ELSE IF gesture.resolved.mode = "sibling-after" THEN "after"
             ELSE "undefined")
       /\ PassedToMoveNode(action', last')
       /\ cards' = Render(Arena')
       /\ Renders(rafQueue') = Renders(rafQueue) + 1]_vars

\* The callbacks of scheduleDragTransform pending.
DragCallbacks == Cardinality({i \in DOMAIN rafQueue : rafQueue[i].kind = "drag"})

\* C33: the offset of the dragged card is updated at most once per frame: at
\* most one callback of scheduleDragTransform is pending, and when it runs
\* it applies the delta the most recent pointermove has recorded in dragDx
\* and dragDy since it was requested.
OneTransformPerFrame ==
  /\ DragCallbacks <= 1
  /\ dragRaf <=> DragCallbacks = 1
  /\ frame.applied # <<>> => frame.applied = frame.recorded
\* C33 as the code has it: at most one callback of scheduleDragTransform is
\* pending, and when it runs it applies dragDx and dragDy as they are then:
\* the delta the most recent pointermove has recorded since it was requested,
\* or (0, 0) when a pointerdown has reset them since.
ThrottledTransform ==
  /\ DragCallbacks <= 1
  /\ dragRaf <=> DragCallbacks = 1
  /\ frame.applied # <<>> => frame.applied \in {frame.recorded, <<0, 0>>}

\* C33's case: a frame of a drag ran the callback, which applied the delta
\* of the last pointermove.
ThrottledTransformWitness ==
  /\ event = "frame"
  /\ dragActive
  /\ frame.applied # <<>>
  /\ frame.applied = frame.recorded
  /\ frame.applied # <<0, 0>>

\* The line is 1 to 6 marker characters, whitespace and a title.
HeadingLine(line) ==
  /\ RunLength(line, 1, {"#"}) \in 1..MaxLevel
  /\ RunLength(line, RunLength(line, 1, {"#"}) + 1, Whitespace) >= 1
  /\ Trim(line) # Hashes(RunLength(line, 1, {"#"}))

\* A heading-only document: every line is a heading or blank.
HeadingOnly(text) ==
  \A l \in Range(Split(text)) : HeadingLine(l) \/ Trim(l) = <<>>

\* A round trip that began with a text, or with nodes, is complete.
TextTripDone == Len(trip) = 3 /\ trip[1].kind = "text"
NodesTripDone == Len(trip) = 3 /\ trip[1].kind = "nodes"

\* C31 as stated: serialize(parse(text)) reproduces text up to leading and
\* trailing whitespace for every heading-only document of lines of 1 to 6
\* marker characters, whitespace and a title.
TextRoundTrip ==
  (TextTripDone /\ HeadingOnly(trip[1].text))
    => Trim(trip[3].text) = Trim(trip[1].text)

\* The document is written the way serialize writes: each heading is its
\* markers, one space and a title that ends with no whitespace, and one
\* empty line stands between two headings.
AsSerialized(text) ==
  LET ls == Split(Trim(text)) IN
  \A i \in 1..Len(ls) :
    IF i % 2 = 1
      THEN /\ HeadingLine(ls[i])
           /\ ls[i][RunLength(ls[i], 1, {"#"}) + 2] \notin Whitespace
           /\ Trim(ls[i]) = ls[i]
      ELSE ls[i] = <<>>

\* C31, amended: serialize(parse(text)) reproduces text up to leading and
\* trailing whitespace for every heading-only document whose headings are
\* markers, exactly one space and a title without whitespace at its end,
\* with exactly one empty line between two headings.
SerializedRoundTrip ==
  (TextTripDone /\ AsSerialized(trip[1].text))
    => trip[3].text = Trim(trip[1].text)

SerializedRoundTripWitness ==
  /\ TextTripDone
  /\ AsSerialized(trip[1].text)
  /\ Len(trip[2].doc.nodes) >= 2
  /\ trip[3].text = trip[1].text

\* The shape of a node: its title, level and description and the shapes of
\* its children in their order.
RECURSIVE ShapeOf(_, _)
ShapeOf(doc, n) ==
  [title |-> doc.nodes[n].title, level |-> doc.nodes[n].level,
   description |-> doc.nodes[n].description,
   children |-> [i \in 1..Len(doc.nodes[n].children) |->
                   ShapeOf(doc, doc.nodes[n].children[i])]]

Shape(doc) == [i \in 1..Len(doc.roots) |-> ShapeOf(doc, doc.roots[i])]

\* Every node is one level below its parent, the roots at level 1, and no
\* node is deeper than 6.
LevelsWithinSix(doc) ==
  \A n \in 1..Len(doc.nodes) :
    /\ doc.nodes[n].level =
         IF doc.nodes[n].parentId = NULL THEN 1
         ELSE doc.nodes[doc.nodes[n].parentId].level + 1
    /\ doc.nodes[n].level <= MaxLevel

\* C39: parse(serialize(F)) has the shape of F, titles, levels, descriptions
\* and sibling order, for every forest F the tree operations make, nodes of
\* an empty title included.
NodesRoundTrip ==
  (NodesTripDone /\ LevelsWithinSix(trip[1].doc))
    => Shape(trip[3].doc) = Shape(trip[1].doc)

====
